---- MODULE Spec2Model ----
(***************************************************************************)
(* Model of the CitiesSkylinesOSM conversion pipeline                      *)
(* (src/python/main.py, osm_fetcher.py, osm_parser.py, cs2_converter.py).  *)
(*                                                                         *)
(* Numbers.  Python floats are modelled by integers:                       *)
(*   - planar lengths (x, z, elevation, chunk size) count millimetres, so  *)
(*     that round(v, 2) (centimetres) and round(v, 1) (decimetres) are     *)
(*     real conversions and not the identity;                              *)
(*   - latitudes and longitudes count millidegrees.                        *)
(* A Python dict is modelled by a sequence in insertion order, which is    *)
(* the order Python iterates it in.                                        *)
(***************************************************************************)
EXTENDS Integers, Sequences, FiniteSets, TLC

VARIABLES
    \* ---- CS2Converter.create_chunks ----
    data,            \* the CS2-format dataset handed to create_chunks
    chunk_size_m,    \* its chunk_size_m argument (millimetres)
    chunks,          \* the list create_chunks returned last (<<>> before any call)
    prev_chunks,     \* the list the call before that returned
    runs,            \* number of create_chunks calls made on `data`
    \* ---- create_chunks._cell as a pure function ----
    cell_in,         \* <<x, z, chunk_size_m>>
    cell_out,        \* <<col, row>> or None
    \* ---- CS2Converter.__init__ and convert_transit ----
    bbox,            \* <<south, west, north, east>> the converter was built with
    elevations,      \* self.elevations: a set of <<lat, lon, elevation>> entries
    fare_overrides,  \* the fare_overrides argument: route type -> fare dict
    transit_data,    \* the parsed [stops, routes] handed to convert_transit
    cs2_transit,     \* what convert_transit returned
    transit_done,    \* whether convert_transit has returned
    \* ---- main ----
    args,            \* the parsed command line and what the city lookup answers
    main_pc,         \* the section of main() to run next, or how main() ended
    main_bbox,       \* main's local bbox
    parsed,          \* the keys of main's `parsed` dict
    calls,           \* the fetcher, parser and converter calls made, in order
    printed,         \* the error and warning messages printed
    \* ---- CoordinateTransformer._interp_elevation as a pure function ----
    interp_in,       \* <<cx, cz, nodes_xze>>
    interp_out,      \* <<elevation>>, or None before the call
    \* ---- clip_and_convert_line and clip_and_convert_polygon ----
    clip_args,       \* [coords, elevations]: the arguments of the call
    clip_ret,        \* [call, raised, value]: which was called and how it ended
    \* ---- convert_roads, convert_railways, convert_waterways ----
    osm_features,    \* the parsed feature list handed to the converter
    conv_ret,        \* [call, raised, value]: which was called and how it ended
    \* ---- CoordinateTransformer._xz and in_bounds as pure functions ----
    proj_in,         \* the <<lat, lon>> projected so far, in call order
    proj_out,        \* [xz, in_bounds] of each of them
    \* ---- the chunker's loop body run by one or several workers ----
    workers,         \* per worker: [pc, todo, done, key, chunk]
    w_chunks,        \* the dict `chunks` they share: entries [key, ref] in insertion order
    w_heap,          \* every chunk dict created so far; a ref is a position in it
    \* ---- OSMFetcher._query_with_retry ----
    max_retries,     \* the max_retries argument
    attempt,         \* the loop variable: the attempt the loop is at
    retry_pc,        \* "loop", or how the call ended: "returned", "raised"
    api_calls,       \* what each self.api.query(query) did, in call order
    waits,           \* the arguments of time.sleep, in call order (seconds)
    \* ---- CS2Converter._parse_speed as a pure function ----
    speed_in,        \* the maxspeed tag value
    speed_out,       \* <<speed>>, or None before the call
    \* ---- OSMParser.parse_transit_routes ----
    osm_result,      \* the Overpass result: nodes, ways and relations
    parsed_transit   \* <<the dict returned>>, or None before the call

chunk_vars   == <<data, chunk_size_m, chunks, prev_chunks, runs>>
cell_vars    == <<cell_in, cell_out>>
transit_vars == <<bbox, elevations, fare_overrides, transit_data, cs2_transit, transit_done>>
main_vars    == <<args, main_pc, main_bbox, parsed, calls, printed>>
geom_vars    == <<interp_in, interp_out, clip_args, clip_ret, osm_features, conv_ret>>
proj_vars    == <<proj_in, proj_out>>
worker_vars  == <<workers, w_chunks, w_heap>>
retry_vars   == <<max_retries, attempt, retry_pc, api_calls, waits>>
speed_vars   == <<speed_in, speed_out>>
parse_vars   == <<osm_result, parsed_transit>>
other_vars   == <<proj_vars, worker_vars, retry_vars, speed_vars, parse_vars>>
vars         == <<data, chunk_size_m, chunks, prev_chunks, runs, cell_in, cell_out,
                  bbox, elevations, fare_overrides, transit_data, cs2_transit,
                  transit_done, args, main_pc, main_bbox, parsed, calls, printed,
                  interp_in, interp_out, clip_args, clip_ret, osm_features, conv_ret,
                  proj_in, proj_out, workers, w_chunks, w_heap,
                  max_retries, attempt, retry_pc, api_calls, waits,
                  speed_in, speed_out, osm_result, parsed_transit>>

\* Python's None, where the code holds a tuple or a list otherwise.
None == <<>>

-----------------------------------------------------------------------------
(* Arithmetic of the Python primitives the code uses.                      *)

Abs(a) == IF a < 0 THEN -a ELSE a

\* int(a / b): the real quotient truncated toward zero.
IntTrunc(a, b) ==
    LET q == Abs(a) \div Abs(b)
    IN  IF (a < 0) # (b < 0) THEN -q ELSE q

\* math.floor(a / b), for either sign of b (b # 0).
Floor(a, b) == IF b > 0 THEN a \div b ELSE (-a) \div (-b)

\* math.ceil(a / b)
Ceil(a, b) == -Floor(-a, b)

\* round(v, k): to the nearest multiple of `unit`, ties to the even multiple.
RoundTo(v, unit) ==
    LET q == v \div unit
        r == v % unit
    IN  IF 2 * r < unit THEN q * unit
        ELSE IF 2 * r > unit THEN (q + 1) * unit
        ELSE IF q % 2 = 0 THEN q * unit ELSE (q + 1) * unit

CM == 10     \* 0.01 m, the unit of round(v, 2)
DM == 100    \* 0.1 m, the unit of round(v, 1)

Max2(a, b) == IF a >= b THEN a ELSE b
Min2(a, b) == IF a <= b THEN a ELSE b

\* f"{prefix}_{id}": the id strings the converter builds.
PrefixedId(prefix, id) == <<prefix, id>>

-----------------------------------------------------------------------------
(* CoordinateTransformer class constants.                                  *)

CS2_MAP_SIZE == 57344000
CS2_HALF_MAP == 28672000

-----------------------------------------------------------------------------
(* OSMFetcher.validate_bbox.  The Optional[str] it returns is a string     *)
(* here; None and the empty string, which `if err:` treats alike, are "".  *)

\* validate_bbox without its test of south against north.
ValidateNoOrderCheck(bb) ==
    IF Len(bb) # 4 THEN "Bbox must have exactly 4 values"
    ELSE IF ~(-90000 <= bb[1] /\ bb[1] <= 90000 /\ -90000 <= bb[3] /\ bb[3] <= 90000)
         THEN "Latitude out of range"
    ELSE IF ~(-180000 <= bb[2] /\ bb[2] <= 180000 /\ -180000 <= bb[4] /\ bb[4] <= 180000)
         THEN "Longitude out of range"
    ELSE ""

validate_bbox(bb) ==
    IF Len(bb) # 4 THEN "Bbox must have exactly 4 values"
    ELSE IF ~(-90000 <= bb[1] /\ bb[1] <= 90000 /\ -90000 <= bb[3] /\ bb[3] <= 90000)
         THEN "Latitude out of range"
    ELSE IF ~(-180000 <= bb[2] /\ bb[2] <= 180000 /\ -180000 <= bb[4] /\ bb[4] <= 180000)
         THEN "Longitude out of range"
    ELSE IF bb[1] >= bb[3] THEN "south must be less than north"
    ELSE ""

\* Whether validate_bbox prints its antimeridian warning on the way.
validate_bbox_warns(bb) ==
    /\ validate_bbox(bb) = ""
    /\ bb[2] > bb[4]

-----------------------------------------------------------------------------
(* CoordinateTransformer: the projection.                                  *)

\* math.cos(math.radians(lat_centre)) in units of 1/10000, tabulated for the
\* centre latitudes (millidegrees) the model's bounding boxes have.
CosE4(lat) ==
    CASE lat = 0     -> 10000
      [] lat = 42617 -> 7359
      [] lat = 48050 -> 6685
      [] lat = 60000 -> 5000

lat_centre(bb) == (bb[1] + bb[3]) \div 2
lon_centre(bb) == (bb[2] + bb[4]) \div 2

\* Millimetres per millidegree: 111,320 m per degree.
m_per_lat == 111320
m_per_lon(bb) == (m_per_lat * CosE4(lat_centre(bb))) \div 10000

_xz(bb, lat, lon) ==
    << (lon - lon_centre(bb)) * m_per_lon(bb),
       -(lat - lat_centre(bb)) * m_per_lat >>

\* The edges of the map left out.
InBoundsExclusive(bb, lat, lon) ==
    LET xz == _xz(bb, lat, lon)
    IN  Abs(xz[1]) < CS2_HALF_MAP /\ Abs(xz[2]) < CS2_HALF_MAP

in_bounds(bb, lat, lon) ==
    LET xz == _xz(bb, lat, lon)
    IN  Abs(xz[1]) <= CS2_HALF_MAP /\ Abs(xz[2]) <= CS2_HALF_MAP

to_cs2(bb, lat, lon, elev) ==
    LET xz == _xz(bb, lat, lon)
    IN  [x |-> RoundTo(xz[1], CM), y |-> RoundTo(elev, CM), z |-> RoundTo(xz[2], CM)]

\* elevations.get((round(lat, 6), round(lon, 6)), 0.0); a millidegree value
\* has three decimals, so rounding to six leaves it as it is.
ElevationGet(elevs, lat, lon) ==
    IF \E e \in elevs : e[1] = lat /\ e[2] = lon
    THEN (CHOOSE e \in elevs : e[1] = lat /\ e[2] = lon)[3]
    ELSE 0

-----------------------------------------------------------------------------
(* CS2Converter.__init__ and convert_transit.                              *)
(* A Python dict of fare keys is a function on its keys; None and the      *)
(* empty dict, which `if osm_fare:` treats alike, are both <<>>.           *)
(* Money counts hundredths of a currency unit.                             *)

TRANSIT_FARES ==
    [ bus        |-> [base_fare |-> 150, day_pass |-> 500,  currency |-> "EUR"],
      tram       |-> [base_fare |-> 150, day_pass |-> 500,  currency |-> "EUR"],
      train      |-> [base_fare |-> 350, day_pass |-> 1800, currency |-> "EUR"],
      subway     |-> [base_fare |-> 180, day_pass |-> 700,  currency |-> "EUR"],
      light_rail |-> [base_fare |-> 180, day_pass |-> 700,  currency |-> "EUR"],
      ferry      |-> [base_fare |-> 250, day_pass |-> 1000, currency |-> "EUR"] ]

\* A merge in which the first dict wins the shared keys.
MergeUnderWins(under, over) ==
    [k \in DOMAIN under \cup DOMAIN over |->
        IF k \in DOMAIN under THEN under[k] ELSE over[k]]

\* {**under, **over}: the second dict wins the shared keys.
Merge(under, over) ==
    [k \in DOMAIN under \cup DOMAIN over |->
        IF k \in DOMAIN over THEN over[k] ELSE under[k]]

DictGet(d, k, default) == IF k \in DOMAIN d THEN d[k] ELSE default

\* self._fares, built by __init__ from TRANSIT_FARES and the overrides.
_fares(overrides) ==
    [rt \in DOMAIN TRANSIT_FARES |->
        Merge(TRANSIT_FARES[rt], DictGet(overrides, rt, <<>>))]

\* self._fares.get(route_type, self._fares.get("bus", {}))
fare_defaults(overrides, route_type) ==
    DictGet(_fares(overrides), route_type, DictGet(_fares(overrides), "bus", <<>>))

SourceDefault == [source |-> "default"]

\* Fare resolution with the defaults laid over the source fare.
ResolveFareDefaultsWin(overrides, route_type, osm_fare) ==
    IF DOMAIN osm_fare # {}
    THEN MergeUnderWins(fare_defaults(overrides, route_type), osm_fare)
    ELSE Merge(fare_defaults(overrides, route_type), SourceDefault)

\* The fare of an output route.
ResolveFare(overrides, route_type, osm_fare) ==
    IF DOMAIN osm_fare # {}
    THEN Merge(fare_defaults(overrides, route_type), osm_fare)
    ELSE Merge(fare_defaults(overrides, route_type), SourceDefault)

\* A coordinates value that `lon, lat = ...; float(lon), float(lat)` rejects.
Malformed == <<>>

\* The position without any clamping.
ClampNone(bb, lat, lon, elev) == to_cs2(bb, lat, lon, elev)

_clamp_to_map_edge(bb, lat, lon, elev) ==
    LET xz == _xz(bb, lat, lon)
        cx == Max2(-CS2_HALF_MAP, Min2(CS2_HALF_MAP, xz[1]))
        cz == Max2(-CS2_HALF_MAP, Min2(CS2_HALF_MAP, xz[2]))
    IN  [x |-> RoundTo(cx, CM), y |-> RoundTo(elev, CM), z |-> RoundTo(cz, CM)]

\* The same with no bounds test.
StopEmittedUnchecked(bb, stop) == stop.coordinates # Malformed

\* Whether the stop loop appends the stop (no `continue` is taken).
StopEmitted(bb, stop) ==
    /\ stop.coordinates # Malformed
    /\ stop.is_external \/ in_bounds(bb, stop.coordinates[2], stop.coordinates[1])

\* The record the stop loop appends for a stop it emits.
ConvertStop(bb, elevs, stop) ==
    LET lon  == stop.coordinates[1]
        lat  == stop.coordinates[2]
        elev == ElevationGet(elevs, lat, lon)
    IN  [ id          |-> PrefixedId("stop", stop.id),
          name        |-> stop.name,
          position    |-> IF stop.is_external
                          THEN _clamp_to_map_edge(bb, lat, lon, elev)
                          ELSE to_cs2(bb, lat, lon, elev),
          is_external |-> stop.is_external ]

RECURSIVE ConvertStops(_, _, _)
ConvertStops(bb, elevs, stops) ==
    IF stops = <<>> THEN <<>>
    ELSE IF StopEmitted(bb, Head(stops))
         THEN <<ConvertStop(bb, elevs, Head(stops))>> \o ConvertStops(bb, elevs, Tail(stops))
         ELSE ConvertStops(bb, elevs, Tail(stops))

\* Every reference kept, resolved or not.
RECURSIVE RouteStopsUnfiltered(_, _)
RouteStopsUnfiltered(stop_id_set, stop_ids) ==
    IF stop_ids = <<>> THEN <<>>
    ELSE <<PrefixedId("stop", Head(stop_ids))>> \o RouteStopsUnfiltered(stop_id_set, Tail(stop_ids))

\* route_stops: the references that are ids of converted stops, in order.
RECURSIVE RouteStops(_, _)
RouteStops(stop_id_set, stop_ids) ==
    IF stop_ids = <<>> THEN <<>>
    ELSE IF PrefixedId("stop", Head(stop_ids)) \in stop_id_set
         THEN <<PrefixedId("stop", Head(stop_ids))>> \o RouteStops(stop_id_set, Tail(stop_ids))
         ELSE RouteStops(stop_id_set, Tail(stop_ids))

TRANSIT_TYPE_MAP ==
    [ bus |-> "BusLine", tram |-> "TramLine", train |-> "TrainLine",
      subway |-> "SubwayLine", light_rail |-> "MetroLine" ]

\* The record the route loop appends; name stands for the fields copied
\* as they are (name, ref, operator, colour, network, from, to, is_intercity).
ConvertRoute(overrides, stop_id_set, route) ==
    [ id    |-> PrefixedId("route", route.id),
      name  |-> route.name,
      type  |-> DictGet(TRANSIT_TYPE_MAP, route.route_type, "BusLine"),
      stops |-> RouteStops(stop_id_set, route.stop_ids),
      fare  |-> ResolveFare(overrides, route.route_type, route.fare) ]

convert_transit(bb, elevs, overrides, td) ==
    LET cs2_stops   == ConvertStops(bb, elevs, td.stops)
        stop_id_set == {cs2_stops[i].id : i \in DOMAIN cs2_stops}
    IN  [ stops  |-> cs2_stops,
          routes |-> [i \in DOMAIN td.routes |->
                         ConvertRoute(overrides, stop_id_set, td.routes[i])] ]

-----------------------------------------------------------------------------
(* CS2Converter.create_chunks                                              *)

n_cells(size) == Ceil(CS2_MAP_SIZE, size)

\* A clamp at zero only.
ClampIndexNoUpper(i, size) == Max2(0, i)

\* The clamp of one grid index into [0, n_cells - 1].
ClampIndex(i, size) == Max2(0, Min2(i, n_cells(size) - 1))

_cell(x, z, size) ==
    LET col == IntTrunc(x + CS2_HALF_MAP, size)
        row == IntTrunc(z + CS2_HALF_MAP, size)
    IN  <<ClampIndex(col, size), ClampIndex(row, size)>>

\* The chunk _get_chunk creates for a cell that has none yet.
NewChunk(col, row, size) ==
    LET x_min == -CS2_HALF_MAP + col * size
        z_min == -CS2_HALF_MAP + row * size
    IN  [ key       |-> <<col, row>>,
          bounds    |-> [ x_min |-> RoundTo(x_min, DM),
                          z_min |-> RoundTo(z_min, DM),
                          x_max |-> RoundTo(x_min + size, DM),
                          z_max |-> RoundTo(z_min + size, DM) ],
          roads     |-> <<>>,
          railways  |-> <<>>,
          waterways |-> <<>>,
          stops     |-> <<>>,
          routes    |-> <<>> ]

HasKey(cs, key) == \E i \in DOMAIN cs : cs[i].key = key

\* The dict after _get_chunk(col, row): unchanged when the cell exists.
_get_chunk(cs, key, size) ==
    IF HasKey(cs, key) THEN cs ELSE Append(cs, NewChunk(key[1], key[2], size))

\* A renamed copy of the record is appended in its place.
AppendCopyIn(cs, key, field, rec) ==
    [i \in DOMAIN cs |->
        IF cs[i].key = key
        THEN [cs[i] EXCEPT ![field] = Append(@, [rec EXCEPT !.id = PrefixedId("copy", rec.id[2])])]
        ELSE cs[i]]

\* chunk[field].append(rec) on the chunk of `key`.
AppendIn(cs, key, field, rec) ==
    [i \in DOMAIN cs |->
        IF cs[i].key = key THEN [cs[i] EXCEPT ![field] = Append(@, rec)]
        ELSE cs[i]]

\* Assignment by the last point of the record.
AssignLineAnyPoint(cs, rec, field, size) ==
    IF rec.points # <<>>
    THEN LET pt  == rec.points[Len(rec.points)]
             key == _cell(pt.x, pt.z, size)
         IN  AppendIn(_get_chunk(cs, key, size), key, field, rec)
    ELSE cs

\* One iteration of the road / railway / waterway loops.
AssignLine(cs, rec, field, size) ==
    IF rec.points # <<>>
    THEN LET pt  == rec.points[1]
             key == _cell(pt.x, pt.z, size)
         IN  AppendIn(_get_chunk(cs, key, size), key, field, rec)
    ELSE cs

RECURSIVE AssignLines(_, _, _, _)
AssignLines(cs, recs, field, size) ==
    IF recs = <<>> THEN cs
    ELSE AssignLines(AssignLine(cs, Head(recs), field, size), Tail(recs), field, size)

\* One iteration of the stop loop.
AssignStop(cs, stop, size) ==
    LET key == _cell(stop.position.x, stop.position.z, size)
    IN  AppendIn(_get_chunk(cs, key, size), key, "stops", stop)

RECURSIVE AssignStops(_, _, _)
AssignStops(cs, stops, size) ==
    IF stops = <<>> THEN cs
    ELSE AssignStops(AssignStop(cs, Head(stops), size), Tail(stops), size)

StopIdsIn(chunk) == {chunk.stops[j].id : j \in DOMAIN chunk.stops}

\* stop_to_chunk: the dict filled by walking the chunks in order, a later
\* chunk overwriting the entry an earlier one made for the same stop id.
\* stop_to_chunk.get(stop_id) is None for an id no chunk holds.
stop_to_chunk_get(cs, stop_id) ==
    LET holders == {i \in DOMAIN cs : stop_id \in StopIdsIn(cs[i])}
    IN  IF holders = {} THEN None
        ELSE cs[CHOOSE i \in holders : \A j \in holders : j <= i].key

\* The inner loop without the test of `seen`.
RECURSIVE AssignRouteRefsNoSeen(_, _, _, _)
AssignRouteRefsNoSeen(cs, route, refs, seen) ==
    IF refs = <<>> THEN cs
    ELSE LET key == stop_to_chunk_get(cs, Head(refs))
         IN  IF key # None
             THEN AssignRouteRefsNoSeen(AppendIn(cs, key, "routes", route), route,
                                        Tail(refs), seen \cup {key})
             ELSE AssignRouteRefsNoSeen(cs, route, Tail(refs), seen)

\* The inner loop over route["stops"], carrying the `seen` set.
RECURSIVE AssignRouteRefs(_, _, _, _)
AssignRouteRefs(cs, route, refs, seen) ==
    IF refs = <<>> THEN cs
    ELSE LET key == stop_to_chunk_get(cs, Head(refs))
         IN  IF key # None /\ key \notin seen
             THEN AssignRouteRefs(AppendIn(cs, key, "routes", route), route,
                                  Tail(refs), seen \cup {key})
             ELSE AssignRouteRefs(cs, route, Tail(refs), seen)

RECURSIVE AssignRoutes(_, _)
AssignRoutes(cs, routes) ==
    IF routes = <<>> THEN cs
    ELSE AssignRoutes(AssignRouteRefs(cs, Head(routes), Head(routes).stops, {}),
                      Tail(routes))

\* A dict kept from the call before.
StaleChunks(size, previous) == previous

\* A grid built densely up front, one chunk per cell.
DenseChunks(size, previous) ==
    LET n == n_cells(size)
    IN  [k \in 1..(n * n) |-> NewChunk((k - 1) \div n, (k - 1) % n, size)]

\* `chunks = {}`: the dict is a local of the call and starts empty, whatever
\* an earlier call left behind.
FreshChunks(size, previous) == <<>>

\* The list create_chunks returns: list(chunks.values()).  The dataset's
\* transit.stops and transit.routes are its fields stops and routes; a key the
\* dataset lacks reads as the empty list (data.get(kind, [])).
ChunkResult(d, size, previous) ==
    LET c1 == AssignLines(FreshChunks(size, previous), d.roads, "roads", size)
        c2 == AssignLines(c1, d.railways, "railways", size)
        c3 == AssignLines(c2, d.waterways, "waterways", size)
        c4 == AssignStops(c3, d.stops, size)
    IN  AssignRoutes(c4, d.routes)

-----------------------------------------------------------------------------
(* Inputs of the chunker runs.                                             *)

MaxRoads == 2
MaxStops == 2
MaxRuns  == 2

Pt(x, z) == [x |-> x, y |-> 0, z |-> z]

PNorthWest == Pt(-CS2_HALF_MAP, -CS2_HALF_MAP)
PCentre    == Pt(0, 0)
PSouthEast == Pt(CS2_HALF_MAP, CS2_HALF_MAP)
\* One centimetre into cell (1, 1) of the 5000.06 m grid.
PPastEdge  == Pt(-23671930, -23671930)

\* 5 km cells (12 x 12 grid), half-map cells (2 x 2 grid), and cells of
\* 5000.06 m, a --chunk-size that is not a whole number of decimetres.
ChunkSizes == {5000000, 28672000, 5000060}

RoadPointLists  == {<<>>, <<PNorthWest, PSouthEast>>, <<PSouthEast, PCentre, PNorthWest>>}
RailPointLists  == {<<PCentre, PNorthWest>>, <<PPastEdge, PCentre>>}
WaterPointLists == {<<>>, <<PSouthEast, PNorthWest, PCentre, PSouthEast>>}
StopPositions   == {PNorthWest, PCentre, PSouthEast}
\* Stop references of a route; 9 is the id of no stop.
RouteRefLists   == {<<>>, <<1, 2>>, <<2, 9, 1, 2>>, <<9>>}

Lists(S, n) == UNION {[1..k -> S] : k \in 0..n}

\* Converted records, reduced to the fields create_chunks reads and an id.
LineRecs(kind, pls) == [i \in DOMAIN pls |-> [id |-> PrefixedId(kind, i), points |-> pls[i]]]
StopRecs(ps)  == [i \in DOMAIN ps |-> [id |-> PrefixedId("stop", i), position |-> ps[i]]]
RouteRecs(rs) ==
    [i \in DOMAIN rs |->
        [id |-> PrefixedId("route", i),
         stops |-> [j \in DOMAIN rs[i] |-> PrefixedId("stop", rs[i][j])]]]

Datasets ==
    { [ roads     |-> LineRecs("road", r),
        railways  |-> LineRecs("rail", l),
        waterways |-> LineRecs("water", w),
        stops     |-> StopRecs(s),
        routes    |-> RouteRecs(t) ] :
        r \in Lists(RoadPointLists, MaxRoads),
        l \in Lists(RailPointLists, 1),
        w \in Lists(WaterPointLists, 1),
        s \in Lists(StopPositions, MaxStops),
        t \in Lists(RouteRefLists, 1) \cup {<<<<1>>, <<2, 1>>>>} }

EmptyData == [roads |-> <<>>, railways |-> <<>>, waterways |-> <<>>,
              stops |-> <<>>, routes |-> <<>>]

ChunkIdle ==
    /\ data = EmptyData
    /\ chunk_size_m = 5000000
    /\ chunks = <<>>
    /\ prev_chunks = <<>>
    /\ runs = 0

CellIdle ==
    /\ cell_in = None
    /\ cell_out = None

\* south, west, north, east in millidegrees: the specification's example
\* box (48.0, 2.0, 48.1, 2.2), which fits in the map, and a box about the
\* same centre that is larger than the map.
SmallBbox == <<48000, 2000, 48100, 2200>>
BigBbox   == <<47550, 1100, 48550, 3100>>

NoTransit == [stops |-> <<>>, routes |-> <<>>]

TransitIdle ==
    /\ bbox = SmallBbox
    /\ elevations = {}
    /\ fare_overrides = <<>>
    /\ transit_data = NoTransit
    /\ cs2_transit = NoTransit
    /\ transit_done = FALSE

NoArgs == [bbox |-> [kind |-> "absent", value |-> <<>>],
           city |-> [kind |-> "absent", value |-> <<>>],
           features |-> {}, no_elevation |-> FALSE]

MainIdle ==
    /\ args = NoArgs
    /\ main_pc = "idle"
    /\ main_bbox = <<>>
    /\ parsed = {}
    /\ calls = <<>>
    /\ printed = {}

NotCalled == [call |-> "none", engine |-> <<>>, raised |-> FALSE, value |-> <<>>]

InterpIdle ==
    /\ interp_in = None
    /\ interp_out = None

ClipIdle ==
    /\ clip_args = [coords |-> <<>>, elevations |-> {}]
    /\ clip_ret = NotCalled

ConvertIdle ==
    /\ osm_features = <<>>
    /\ conv_ret = NotCalled

GeomIdle == InterpIdle /\ ClipIdle /\ ConvertIdle

ProjIdle ==
    /\ proj_in = <<>>
    /\ proj_out = <<>>

WorkersIdle ==
    /\ workers = <<>>
    /\ w_chunks = <<>>
    /\ w_heap = <<>>

RetryIdle ==
    /\ max_retries = 3
    /\ attempt = 0
    /\ retry_pc = "idle"
    /\ api_calls = <<>>
    /\ waits = <<>>

SpeedIdle ==
    /\ speed_in = None
    /\ speed_out = None

ParseIdle ==
    /\ osm_result = None
    /\ parsed_transit = None

OtherIdle == ProjIdle /\ WorkersIdle /\ RetryIdle /\ SpeedIdle /\ ParseIdle

-----------------------------------------------------------------------------
(* Specification Spec: create_chunks called on a dataset, and called again *)
(* on the same dataset.                                                    *)

ChunkInit ==
    /\ data \in Datasets
    /\ chunk_size_m \in ChunkSizes
    /\ chunks = <<>>
    /\ prev_chunks = <<>>
    /\ runs = 0

\* The first call of create_chunks(data, chunk_size_m).
CreateChunks ==
    /\ runs = 0
    /\ chunks' = ChunkResult(data, chunk_size_m, chunks)
    /\ runs' = 1
    /\ UNCHANGED <<data, chunk_size_m, prev_chunks, cell_vars, geom_vars, other_vars, transit_vars, main_vars>>

\* A further call with the same arguments on the same converter.
CreateChunksAgain ==
    /\ runs >= 1
    /\ runs < MaxRuns
    /\ prev_chunks' = chunks
    /\ chunks' = ChunkResult(data, chunk_size_m, chunks)
    /\ runs' = runs + 1
    /\ UNCHANGED <<data, chunk_size_m, cell_vars, geom_vars, other_vars, transit_vars, main_vars>>

Init == ChunkInit /\ CellIdle /\ TransitIdle /\ MainIdle /\ GeomIdle /\ OtherIdle

Next == CreateChunks \/ CreateChunksAgain

Spec == Init /\ [][Next]_vars

-----------------------------------------------------------------------------
(* Specification SpecCell: _cell applied to one planar point.              *)

CellCoords == {-40000000, -28672001, -28672000, -1, 0, 28000000, 28672000, 40000000}
CellSizes  == {1000, 2500500, 3000000, 5000000, 28672000, 60000000}

CellInit ==
    /\ cell_in \in CellCoords \X CellCoords \X CellSizes
    /\ cell_out = None

ComputeCell ==
    /\ cell_out = None
    /\ cell_out' = _cell(cell_in[1], cell_in[2], cell_in[3])
    /\ UNCHANGED <<cell_in, geom_vars, other_vars, chunk_vars, transit_vars, main_vars>>

InitCell == CellInit /\ ChunkIdle /\ TransitIdle /\ MainIdle /\ GeomIdle /\ OtherIdle

NextCell == ComputeCell

SpecCell == InitCell /\ [][NextCell]_vars

-----------------------------------------------------------------------------
(* Claims about the chunker.                                               *)

Range(f) == {f[i] : i \in DOMAIN f}

\* The grid index the specification of the chunker prescribes, written with
\* floor and ceil and without the code's helpers (size > 0).
SpecIndex(v, size) ==
    LET n == (CS2_MAP_SIZE + size - 1) \div size
        i == (v + CS2_HALF_MAP) \div size
    IN  IF i < 0 THEN 0 ELSE IF i > n - 1 THEN n - 1 ELSE i

\* C1: for every planar point, inside the map square or not, and every
\* positive chunk size, _cell returns col = clamp(floor((x+half)/size), 0, n-1)
\* and row = clamp(floor((z+half)/size), 0, n-1) with n = ceil(57344/size),
\* although the code truncates with int(); a 5000 m chunk gives n = 12 and
\* the point (28000, 28000) maps to cell (11, 11).
C1_CellIsClampedFloor ==
    cell_out # None =>
        /\ cell_out = <<SpecIndex(cell_in[1], cell_in[3]), SpecIndex(cell_in[2], cell_in[3])>>
        /\ n_cells(cell_in[3]) = (CS2_MAP_SIZE + cell_in[3] - 1) \div cell_in[3]
        /\ cell_in[3] = 5000000 => n_cells(cell_in[3]) = 12
        /\ cell_in = <<28000000, 28000000, 5000000>> => cell_out = <<11, 11>>

\* A point west of the map whose quotient lies in (-1, 0), where int() and
\* floor differ, and whose z lies beyond the south edge, has been mapped.
C1_Witness ==
    /\ cell_in = <<-28672001, 40000000, 5000000>>
    /\ cell_out = <<0, 11>>

LineFields == {"roads", "railways", "waterways"}

\* The places <<chunk index, list, list index>> at which record r is held.
Occ(cs, r) ==
    UNION { UNION { { <<i, f, j>> : j \in {k \in DOMAIN cs[i][f] : cs[i][f][k] = r} } :
                    f \in LineFields } :
            i \in DOMAIN cs }

FirstCell(r) == _cell(r.points[1].x, r.points[1].z, chunk_size_m)
LastCell(r)  == _cell(r.points[Len(r.points)].x, r.points[Len(r.points)].z, chunk_size_m)

\* C2: after create_chunks every road, railway and waterway record with at
\* least one point is held at exactly one place: in one chunk, in that
\* chunk's list of the record's own kind, and that chunk is the cell of the
\* record's first point.
C2_LineInFirstPointChunkOnly ==
    runs >= 1 =>
        \A f \in LineFields : \A k \in DOMAIN data[f] :
            LET r == data[f][k]
            IN  r.points # <<>> =>
                    \E i \in DOMAIN chunks : \E j \in DOMAIN chunks[i][f] :
                        /\ Occ(chunks, r) = {<<i, f, j>>}
                        /\ chunks[i].key = FirstCell(r)

\* Two roads have been chunked, one of them ending in another cell than it
\* starts in.
C2_Witness ==
    /\ runs >= 1
    /\ Len(data.roads) = 2
    /\ \E k \in DOMAIN data.roads :
          /\ data.roads[k].points # <<>>
          /\ FirstCell(data.roads[k]) # LastCell(data.roads[k])
          /\ \E i \in DOMAIN chunks :
                /\ chunks[i].key = FirstCell(data.roads[k])
                /\ data.roads[k] \in Range(chunks[i].roads)

TimesIn(list, r) == Cardinality({j \in DOMAIN list : list[j] = r})

\* C3: after create_chunks a route is in the routes list of chunk c exactly
\* when c holds a stop whose id is in the route's stops list, and then it is
\* there once; a route with no stop in any chunk is in no chunk.
C3_RouteWhereItsStopsAre ==
    runs >= 1 =>
        \A k \in DOMAIN data.routes : \A i \in DOMAIN chunks :
            LET r == data.routes[k]
            IN  TimesIn(chunks[i].routes, r) =
                    IF StopIdsIn(chunks[i]) \cap Range(r.stops) # {} THEN 1 ELSE 0

\* A route naming two stops of one chunk (and a stop that does not exist) has
\* been placed in that chunk.
C3_Witness ==
    /\ runs >= 1
    /\ \E k \in DOMAIN data.routes : \E i \in DOMAIN chunks :
          /\ Len(data.routes[k].stops) = 4
          /\ {PrefixedId("stop", 1), PrefixedId("stop", 2)} \subseteq StopIdsIn(chunks[i])
          /\ data.routes[k] \in Range(chunks[i].routes)

\* C4: every chunk create_chunks returns holds at least one road, railway,
\* waterway or stop; routes alone never make a chunk exist.
C4_NoEmptyChunk ==
    runs >= 1 =>
        \A i \in DOMAIN chunks :
            \/ chunks[i].roads # <<>>
            \/ chunks[i].railways # <<>>
            \/ chunks[i].waterways # <<>>
            \/ chunks[i].stops # <<>>

\* Chunks exist, and the dataset has a route none of whose stops exists and
\* a record without points: neither made a chunk.
C4_Witness ==
    /\ runs >= 1
    /\ Len(chunks) >= 2
    /\ \E k \in DOMAIN data.routes : data.routes[k].stops = <<PrefixedId("stop", 9)>>
    /\ \E k \in DOMAIN data.roads : data.roads[k].points = <<>>
    /\ \A i \in DOMAIN chunks : chunks[i].routes = <<>>

-----------------------------------------------------------------------------
(* Specification SpecTransit: convert_transit on the parser's output.      *)

MaxTransitStops  == 2
MaxTransitRoutes == 1

\* OSMParser._node_is_external
_node_is_external(lat, lon, bb) ==
    lat < bb[1] \/ lat > bb[3] \/ lon < bb[2] \/ lon > bb[4]

\* Stop coordinates <<lon, lat>>: in both boxes; east of the small box and
\* beyond the map's east edge; north-east of both boxes and beyond two map
\* edges; east of the small box but inside the map.
StopCoordinates == {<<2051, 48050>>, <<2500, 48050>>, <<3200, 48400>>, <<2251, 48051>>}

\* The stops the parser can hand over for a box, is_external set by
\* _node_is_external, and a stop whose coordinates do not parse.
ParsedStops(bb) ==
    { [coordinates |-> c, is_external |-> _node_is_external(c[2], c[1], bb)] :
        c \in StopCoordinates }
    \cup { [coordinates |-> Malformed, is_external |-> TRUE] }

StopInputs(bb, ss) ==
    [i \in DOMAIN ss |->
        [id |-> i, name |-> "stop name", coordinates |-> ss[i].coordinates,
         is_external |-> ss[i].is_external]]

\* What OSMParser._parse_osm_fare returns: None or a fare tagged "osm".
OsmFares == {<<>>, [base_fare |-> 220, currency |-> "GBP", source |-> "osm"]}

\* Stop references of a parsed route; 9 is the id of no stop.
StopIdLists == {<<>>, <<2, 1, 2>>, <<9, 1>>}

ParsedRoutes ==
    { [route_type |-> t, stop_ids |-> l, fare |-> f] :
        t \in {"train", "monorail"}, l \in StopIdLists, f \in OsmFares }

RouteInputs(rs) ==
    [i \in DOMAIN rs |->
        [id |-> i, name |-> "route name", route_type |-> rs[i].route_type,
         stop_ids |-> rs[i].stop_ids, fare |-> rs[i].fare]]

\* The --fare-config file: absent, or overriding two keys of the bus fare.
FareOverrides == {<<>>, [bus |-> [base_fare |-> 200, currency |-> "GBP"]]}

ElevationTables == {{}, {<<48050, 2500, 35123>>, <<48051, 2251, 12345>>}}

TransitInit ==
    /\ bbox \in {SmallBbox, BigBbox}
    /\ elevations \in ElevationTables
    /\ fare_overrides \in FareOverrides
    /\ \E ss \in Lists(ParsedStops(bbox), MaxTransitStops) :
       \E rs \in Lists(ParsedRoutes, MaxTransitRoutes) :
          transit_data = [stops |-> StopInputs(bbox, ss), routes |-> RouteInputs(rs)]
    /\ cs2_transit = NoTransit
    /\ transit_done = FALSE

ConvertTransit ==
    /\ ~transit_done
    /\ cs2_transit' = convert_transit(bbox, elevations, fare_overrides, transit_data)
    /\ transit_done' = TRUE
    /\ UNCHANGED <<bbox, elevations, fare_overrides, transit_data, chunk_vars, cell_vars, geom_vars, other_vars, main_vars>>

InitTransit == TransitInit /\ ChunkIdle /\ CellIdle /\ MainIdle /\ GeomIdle /\ OtherIdle

NextTransit == ConvertTransit

SpecTransit == InitTransit /\ [][NextTransit]_vars

-----------------------------------------------------------------------------
(* Claims about convert_transit.                                           *)

EmittedStopIds == {cs2_transit.stops[i].id : i \in DOMAIN cs2_transit.stops}

RefEmitted(sid) == PrefixedId("stop", sid) \in EmittedStopIds

\* C8: convert_transit emits one output route per input route, in order;
\* each output route's stops list is the subsequence, in the original order,
\* of the input references whose stop was emitted; a route with no such
\* reference is emitted all the same, stops empty and metadata intact.
C8_RoutesKeepEmittedRefs ==
    transit_done =>
        /\ Len(cs2_transit.routes) = Len(transit_data.routes)
        /\ \A k \in DOMAIN transit_data.routes :
              LET r   == transit_data.routes[k]
                  o   == cs2_transit.routes[k]
                  kept == SelectSeq(r.stop_ids, RefEmitted)
              IN  /\ o.id = PrefixedId("route", r.id)
                  /\ o.name = r.name
                  /\ o.stops = [j \in DOMAIN kept |-> PrefixedId("stop", kept[j])]

\* A route whose references all fail (a stop that does not exist and a stop
\* that was dropped) has been emitted with no stops, and a stop was emitted.
C8_Witness ==
    /\ transit_done
    /\ Len(cs2_transit.stops) = 1
    /\ Len(transit_data.stops) = 2
    /\ \E k \in DOMAIN transit_data.routes :
          /\ transit_data.routes[k].stop_ids = <<9, 1>>
          /\ cs2_transit.routes[k].stops = <<>>

\* C9: with an explicit source fare the output fare is the route-type
\* defaults overlaid by it, the source value winning on every shared key;
\* with none it is the defaults with source "default"; so the output fare
\* has source "default" exactly when no explicit fare was supplied.
C9_FareResolution ==
    transit_done =>
        \A k \in DOMAIN transit_data.routes :
            LET r    == transit_data.routes[k]
                out  == cs2_transit.routes[k].fare
                dflt == fare_defaults(fare_overrides, r.route_type)
            IN  /\ "source" \in DOMAIN out
                /\ (out["source"] = "default") <=> (r.fare = <<>>)
                /\ IF r.fare # <<>>
                   THEN /\ DOMAIN out = DOMAIN dflt \cup DOMAIN r.fare
                        /\ \A key \in DOMAIN r.fare : out[key] = r.fare[key]
                        /\ \A key \in DOMAIN dflt \ DOMAIN r.fare : out[key] = dflt[key]
                   ELSE /\ DOMAIN out = DOMAIN dflt \cup {"source"}
                        /\ \A key \in DOMAIN dflt \ {"source"} : out[key] = dflt[key]

\* A route of a type with no fare of its own, under an overridden bus fare,
\* has been given its explicit fare over the defaults.
C9_Witness ==
    /\ transit_done
    /\ fare_overrides # <<>>
    /\ \E k \in DOMAIN transit_data.routes :
          /\ transit_data.routes[k].route_type = "monorail"
          /\ transit_data.routes[k].fare # <<>>
          /\ cs2_transit.routes[k].fare =
                [base_fare |-> 220, day_pass |-> 500, currency |-> "GBP", source |-> "osm"]

\* The position the specification prescribes for an external stop: each
\* axis clamped on its own, then rounded to centimetres like every output.
SpecClamp(v) == Min2(CS2_HALF_MAP, Max2(-CS2_HALF_MAP, v))

OutputsOf(stop) ==
    {i \in DOMAIN cs2_transit.stops : cs2_transit.stops[i].id = PrefixedId("stop", stop.id)}

-----------------------------------------------------------------------------
(* Specification SpecMain: one run of main().                              *)

Absent == [kind |-> "absent", value |-> <<>>]

\* Bounding boxes a command line or a city lookup can give: latitudes and
\* longitudes in and out of range, south below, equal to and above north,
\* west below, equal to and above east.
MainBboxes ==
    { <<s, w, n, e>> : s \in {-91000, 48000, 48100}, w \in {-181000, 2000, 2200},
                       n \in {48000, 48100, 91000},  e \in {2000, 2200, 181000} }

\* --bbox: absent, not four values, a value float() rejects, or four numbers.
BboxArgs ==
    {Absent, [kind |-> "wrong_count", value |-> <<>>], [kind |-> "non_numeric", value |-> <<>>]}
    \cup {[kind |-> "ok", value |-> b] : b \in MainBboxes}

\* --city: absent, unknown to the lookup, or looked up to four numbers.
CityArgs ==
    {Absent, [kind |-> "not_found", value |-> <<>>]}
    \cup {[kind |-> "found", value |-> b] : b \in MainBboxes}

FeatureArgs == {{"roads", "railways", "waterways", "bus", "tram", "train"}, {"roads"}, {"tram"}}

MainArgs ==
    { [bbox |-> b, city |-> c, features |-> f, no_elevation |-> ne] :
        b \in BboxArgs, c \in CityArgs, f \in FeatureArgs, ne \in BOOLEAN }

\* --chunk-size, any float: negative, zero, the default 5000 m.
MainChunkSizes == {-5000000, 0, 5000000}

MainInit ==
    /\ args \in {a \in MainArgs : a.bbox = Absent \/ a.city = Absent}
    /\ chunk_size_m \in MainChunkSizes
    /\ main_pc = "resolve"
    /\ main_bbox = <<>>
    /\ parsed = {}
    /\ calls = <<>>
    /\ printed = {}
    /\ data = EmptyData
    /\ chunks = <<>>
    /\ prev_chunks = <<>>
    /\ runs = 0

\* 1. Resolve bounding box.
MainResolveBbox ==
    /\ main_pc = "resolve"
    /\ IF args.bbox.kind # "absent"
       THEN IF args.bbox.kind = "ok"
            THEN /\ main_bbox' = args.bbox.value
                 /\ main_pc' = "validate"
                 /\ UNCHANGED <<calls, printed>>
            ELSE /\ printed' = printed \cup {"ERROR: --bbox"}
                 /\ main_pc' = "returned"
                 /\ UNCHANGED <<calls, main_bbox>>
       ELSE IF args.city.kind # "absent"
            THEN IF args.city.kind = "found"
                 THEN /\ main_bbox' = args.city.value
                      /\ calls' = calls \o <<"fetch_city_bbox", "save_bbox_cache">>
                      /\ main_pc' = "validate"
                      /\ UNCHANGED printed
                 ELSE /\ calls' = Append(calls, "fetch_city_bbox")
                      /\ printed' = printed \cup {"ERROR: Could not find city"}
                      /\ main_pc' = "returned"
                      /\ UNCHANGED main_bbox
            ELSE /\ printed' = printed \cup {"Please provide --city or --bbox."}
                 /\ main_pc' = "returned"
                 /\ UNCHANGED <<calls, main_bbox>>
    /\ UNCHANGED <<args, parsed, chunk_vars, cell_vars, geom_vars, other_vars, transit_vars>>

\* Validate the bbox before doing any heavy fetching.
MainValidateBbox ==
    /\ main_pc = "validate"
    /\ calls' = Append(calls, "validate_bbox")
    /\ IF validate_bbox(main_bbox) # ""
       THEN /\ printed' = printed \cup {"ERROR: Invalid bounding box"}
            /\ main_pc' = "returned"
       ELSE /\ printed' = printed \cup
                  (IF validate_bbox_warns(main_bbox) THEN {"Warning: west > east"} ELSE {})
            /\ main_pc' = "fetch"
    /\ UNCHANGED <<args, main_bbox, parsed, chunk_vars, cell_vars, geom_vars, other_vars, transit_vars>>

\* 2. Fetch OSM data.
MainFetch ==
    /\ main_pc = "fetch"
    /\ calls' = Append(calls, "fetch_city_data")
    /\ main_pc' = "parse"
    /\ UNCHANGED <<args, main_bbox, parsed, printed, chunk_vars, cell_vars, geom_vars, other_vars, transit_vars>>

\* 2. Fetch OSM data, a query failing for good: the exception leaves main().
MainFetchRaises ==
    /\ main_pc = "fetch"
    /\ calls' = Append(calls, "fetch_city_data")
    /\ main_pc' = "raised"
    /\ UNCHANGED <<args, main_bbox, parsed, printed, chunk_vars, cell_vars, geom_vars, other_vars, transit_vars>>

\* The keys of the dict fetch_city_data returns.
OsmDataKeys(features) ==
    (features \cap {"roads", "railways", "waterways"})
    \cup (IF features \cap {"bus", "tram", "train"} # {} THEN {"transit"} ELSE {})

ParseCall ==
    [ roads |-> "parse_roads", railways |-> "parse_railways",
      waterways |-> "parse_waterways", transit |-> "parse_transit_routes" ]

ConvertCall ==
    [ roads |-> "convert_roads", railways |-> "convert_railways",
      waterways |-> "convert_waterways", transit |-> "convert_transit" ]

\* The calls main makes for the keys present, in the order of its `if`s.
CallsFor(call, keys) ==
    (IF "roads" \in keys THEN <<call["roads"]>> ELSE <<>>)
    \o (IF "railways" \in keys THEN <<call["railways"]>> ELSE <<>>)
    \o (IF "waterways" \in keys THEN <<call["waterways"]>> ELSE <<>>)
    \o (IF "transit" \in keys THEN <<call["transit"]>> ELSE <<>>)

\* 3. Parse OSM data.
MainParse ==
    /\ main_pc = "parse"
    /\ parsed' = OsmDataKeys(args.features)
    /\ calls' = calls \o CallsFor(ParseCall, OsmDataKeys(args.features))
    /\ main_pc' = "elevation"
    /\ UNCHANGED <<args, main_bbox, printed, chunk_vars, cell_vars, geom_vars, other_vars, transit_vars>>

\* 4. Fetch elevation.
MainElevation ==
    /\ main_pc = "elevation"
    /\ IF ~args.no_elevation
       THEN /\ calls' = Append(calls, "fetch_elevation")
            /\ elevations' \in ElevationTables
       ELSE UNCHANGED <<calls, elevations>>
    /\ main_pc' = "convert"
    /\ UNCHANGED <<args, main_bbox, parsed, printed, chunk_vars, cell_vars, geom_vars, other_vars,
                   bbox, fare_overrides, transit_data, cs2_transit, transit_done>>

\* What the converters can return for the kinds that were parsed.
MainConverted(keys) ==
    { [ roads     |-> r,
        railways  |-> IF "railways" \in keys
                      THEN LineRecs("rail", <<<<PCentre, PNorthWest>>>>) ELSE <<>>,
        waterways |-> <<>>,
        stops     |-> t.stops,
        routes    |-> t.routes ] :
        r \in (IF "roads" \in keys
               THEN {<<>>, LineRecs("road", <<<<PNorthWest, PSouthEast>>>>)} ELSE {<<>>}),
        t \in (IF "transit" \in keys
               THEN {NoTransit, [stops |-> StopRecs(<<PSouthEast>>), routes |-> RouteRecs(<<<<1>>>>)]}
               ELSE {NoTransit}) }

\* 5. Convert to CS2 format.
MainConvert ==
    /\ main_pc = "convert"
    /\ bbox' = main_bbox
    /\ calls' = calls \o CallsFor(ConvertCall, parsed)
    /\ data' \in MainConverted(parsed)
    /\ main_pc' = "chunk"
    /\ UNCHANGED <<args, main_bbox, parsed, printed, chunk_size_m, chunks, prev_chunks, runs,
                   cell_vars, geom_vars, other_vars, elevations, fare_overrides, transit_data,
                   cs2_transit,
                   transit_done>>

\* 6. Chunk for dynamic loading.  A chunk size of zero raises
\* ZeroDivisionError in create_chunks, which leaves main().
MainChunk ==
    /\ main_pc = "chunk"
    /\ calls' = Append(calls, "create_chunks")
    /\ IF chunk_size_m = 0
       THEN /\ main_pc' = "raised"
            /\ UNCHANGED <<chunks, runs>>
       ELSE /\ chunks' = ChunkResult(data, chunk_size_m, chunks)
            /\ runs' = 1
            /\ main_pc' = "save"
    /\ UNCHANGED <<args, main_bbox, parsed, printed, data, chunk_size_m, prev_chunks,
                   cell_vars, geom_vars, other_vars, transit_vars>>

\* 7. Save.
MainSave ==
    /\ main_pc = "save"
    /\ calls' = calls \o <<"save_to_file", "save_to_file">>
    /\ main_pc' = "done"
    /\ UNCHANGED <<args, main_bbox, parsed, printed, chunk_vars, cell_vars, geom_vars, other_vars, transit_vars>>

InitMain == MainInit /\ CellIdle /\ TransitIdle /\ GeomIdle /\ OtherIdle

NextMain ==
    \/ MainResolveBbox
    \/ MainValidateBbox
    \/ MainFetch
    \/ MainFetchRaises
    \/ MainParse
    \/ MainElevation
    \/ MainConvert
    \/ MainChunk
    \/ MainSave

SpecMain == InitMain /\ [][NextMain]_vars

-----------------------------------------------------------------------------
(* Claims about main().                                                    *)

Called(c) == \E i \in DOMAIN calls : calls[i] = c

ConvertCalled == \E k \in DOMAIN ConvertCall : Called(ConvertCall[k])

\* C6: a chunk size of zero or less is surfaced as a configuration error
\* before any conversion begins: no convert_* call is made and create_chunks
\* builds no grid from it.
C6_NonPositiveChunkSizeFailsFast ==
    chunk_size_m <= 0 => (~ConvertCalled /\ runs = 0)

\* The steps that must not run on a rejected bounding box.
PipelineCalled ==
    \/ Called("fetch_city_data")
    \/ Called("fetch_elevation")
    \/ Called("create_chunks")
    \/ \E k \in DOMAIN ParseCall : Called(ParseCall[k]) \/ Called(ConvertCall[k])

\* The boxes the data model rules out.
BadBbox(bb) ==
    \/ bb[1] < -90000 \/ bb[1] > 90000 \/ bb[3] < -90000 \/ bb[3] > 90000
    \/ bb[2] < -180000 \/ bb[2] > 180000 \/ bb[4] < -180000 \/ bb[4] > 180000
    \/ bb[1] >= bb[3]

GivenBbox == IF args.bbox.kind = "ok" THEN args.bbox.value ELSE args.city.value

\* C7: a bounding box with a latitude outside [-90, 90], a longitude outside
\* [-180, 180] or south >= north is rejected before any data fetch, parse,
\* elevation, conversion or chunking step runs; a box with west > east is
\* flagged with a warning only and the run goes on with it as given.
C7_BadBboxRejectedAntimeridianWarned ==
    main_bbox # <<>> =>
        /\ BadBbox(main_bbox) =>
              /\ main_pc \in {"validate", "returned"}
              /\ ~PipelineCalled
              /\ Called("validate_bbox") => "ERROR: Invalid bounding box" \in printed
        /\ (~BadBbox(main_bbox) /\ Called("validate_bbox")) =>
              /\ main_pc # "returned"
              /\ "ERROR: Invalid bounding box" \notin printed
              /\ main_bbox = GivenBbox
              /\ ("Warning: west > east" \in printed) <=> (main_bbox[2] > main_bbox[4])
              /\ ConvertCalled => bbox = GivenBbox

\* A box with west > east has been warned about and converted as it was
\* given.
C7_Witness ==
    /\ main_pc = "done"
    /\ main_bbox = <<48000, 2200, 48100, 2000>>
    /\ bbox = <<48000, 2200, 48100, 2000>>
    /\ "Warning: west > east" \in printed
    /\ ConvertCalled

-----------------------------------------------------------------------------
(* CoordinateTransformer._interp_elevation.                                *)
(* Candidates are <<x, z, elevation>> in millimetres.  A squared distance  *)
(* in square millimetres does not fit a machine word: it is kept as        *)
(* <<hi, lo>>, worth hi * 10^8 + lo with 0 <= lo < 10^8.                   *)

\* <<hi, lo>> brought back to 0 <= lo < 10^8.
Carried(hi, lo) == << hi + (lo \div 100000000), lo % 100000000 >>

\* (a * 10^4 + b) ** 2 for 0 <= b < 10^4
SqOfParts(a, b) ==
    Carried(a * a + ((2 * a * b) \div 10000), ((2 * a * b) % 10000) * 10000 + b * b)

\* d ** 2
Sq(d) == SqOfParts(Abs(d) \div 10000, Abs(d) % 10000)

SqAdd(u, v) == Carried(u[1] + v[1], u[2] + v[2])

\* (cx - nx) ** 2 + (cz - nz) ** 2
SqDist(cx, cz, nx, nz) == SqAdd(Sq(cx - nx), Sq(cz - nz))

SqLess(u, v) == u[1] < v[1] \/ (u[1] = v[1] /\ u[2] < v[2])

\* The largest of the bases 16, 4 and 2 in whose digits b can be taken
\* without (base - 1) * (c - 1) + base * (c - 1) leaving the machine word.
DigitBase(c) ==
    IF c <= 2147483647 \div 31 THEN 16
    ELSE IF c <= 2147483647 \div 7 THEN 4
    ELSE 2

\* <<q, r>> with a * b = q * c + r and 0 <= r < c, for a >= 0, c > 0 and
\* 0 <= b <= c: the product is built digit by digit of b so that no
\* intermediate value leaves the machine word.
RECURSIVE MulDivQR(_, _, _, _)
MulDivQR(a, b, c, base) ==
    IF b = 0 THEN <<0, 0>>
    ELSE LET h == MulDivQR(a, b \div base, c, base)
             s == base * h[2] + (b % base) * (a % c)
         IN  << base * h[1] + (b % base) * (a \div c) + (s \div c), s % c >>

\* a * b / c for 0 <= b <= c, truncated toward zero to the millimetre.
MulDiv(a, b, c) ==
    IF c = 0 \/ a = 0 THEN 0
    ELSE IF a > 0 THEN MulDivQR(a, b, c, DigitBase(c))[1]
    ELSE -(MulDivQR(-a, b, c, DigitBase(c))[1])

\* distances = [((cx - nx) ** 2 + (cz - nz) ** 2, ne) for nx, nz, ne in nodes_xze]
Distances(cx, cz, nodes_xze) ==
    [i \in DOMAIN nodes_xze |->
        << SqDist(cx, cz, nodes_xze[i][1], nodes_xze[i][2]), nodes_xze[i][3] >>]

\* Of candidates at the same distance the last one sorts first.
SortsFirstUnstable(distances, skip) ==
    CHOOSE i \in DOMAIN distances \ {skip} :
        \A j \in DOMAIN distances \ {skip, i} :
            \/ SqLess(distances[i][1], distances[j][1])
            \/ (distances[i][1] = distances[j][1] /\ i > j)

\* The position in `distances` of the entry that distances.sort puts
\* first: the nearest candidate, and of the candidates at the same distance
\* the first one (list.sort is stable).  `skip` is a position left out of
\* the search, or 0: the entry sorted second is the first of the others.
SortsFirst(distances, skip) ==
    CHOOSE i \in DOMAIN distances \ {skip} :
        \A j \in DOMAIN distances \ {skip, i} :
            \/ SqLess(distances[i][1], distances[j][1])
            \/ (distances[i][1] = distances[j][1] /\ i < j)

\* (w1 * e1 + w2 * e2) / (w1 + w2) with w = 1 / (d + 1e-9), which is
\* e1 + (e2 - e1) * d1 / (d1 + d2) for d1 > 0: the 1e-9 m^2 is a thousandth
\* of a square millimetre.  The quotient of the two distances is taken in
\* the finest unit (1, 10^5 or 10^8 mm^2) in which their sum fits a word.
InverseDistanceMean(d1, e1, d2, e2) ==
    LET fine   == d1[1] + d2[1] = 0
        medium == d1[1] + d2[1] < 1000000
        D(d)   == IF fine THEN d[2]
                  ELSE IF medium THEN d[1] * 1000 + (d[2] \div 100000)
                  ELSE d[1]
    IN  e1 + MulDiv(e2 - e1, D(d1), D(d1) + D(d2))

\* The weighted mean of the entries sorted first and second.
TwoNearest(first, second) ==
    InverseDistanceMean(first[1], first[2], second[1], second[2])

\* The statements after the sort: d1, e1 = distances[0] and what follows.
Sorted(distances, i1) ==
    IF distances[i1][1] = <<0, 0>> THEN distances[i1][2]
    ELSE IF Len(distances) = 1 THEN distances[i1][2]
    ELSE TwoNearest(distances[i1], distances[SortsFirst(distances, i1)])

Interpolated(distances) == Sorted(distances, SortsFirst(distances, 0))

_interp_elevation(cx, cz, nodes_xze) ==
    IF nodes_xze = <<>> THEN 0
    ELSE Interpolated(Distances(cx, cz, nodes_xze))

-----------------------------------------------------------------------------
(* Specification SpecInterp: _interp_elevation applied to one query point  *)
(* and one candidate list.                                                 *)

MaxCandidates == 3

\* Candidates: two at the origin with different elevations, one 5 m away,
\* one on the east edge of the map, one a millimetre from the origin.
Candidates ==
    { <<0, 0, 10000>>, <<0, 0, 20000>>, <<3000, 4000, 5000>>,
      <<28672000, -1000000, 7000>>, <<1, 0, 90000>> }

QueryPoints == { <<0, 0>>, <<3000, 4000>>, <<14336000, 0>>, <<-28672000, 28672000>> }

InterpInit ==
    /\ \E q \in QueryPoints : \E c \in Lists(Candidates, MaxCandidates) :
          interp_in = <<q[1], q[2], c>>
    /\ interp_out = None

InterpElevation ==
    /\ interp_out = None
    /\ interp_out' = << _interp_elevation(interp_in[1], interp_in[2], interp_in[3]) >>
    /\ UNCHANGED <<interp_in, clip_args, clip_ret, osm_features, conv_ret,
                   chunk_vars, cell_vars, transit_vars, main_vars, other_vars>>

InitInterp ==
    InterpInit /\ ClipIdle /\ ConvertIdle /\ ChunkIdle /\ CellIdle /\ TransitIdle /\ MainIdle /\ OtherIdle

NextInterp == InterpElevation

SpecInterp == InitInterp /\ [][NextInterp]_vars

-----------------------------------------------------------------------------
(* Claims about _interp_elevation.                                         *)

\* The candidates of the query at squared distance 0, in list order.
AtQuery == SelectSeq(interp_in[3], LAMBDA n : n[1] = interp_in[1] /\ n[2] = interp_in[2])

\* C17: elevation interpolation short-circuits: no candidate gives 0, a
\* single candidate gives its elevation, and a candidate at squared distance
\* 0 gives the elevation of the first such candidate of the list, with no
\* averaging.
C17_InterpolationShortCircuits ==
    interp_out # None =>
        /\ interp_in[3] = <<>> => interp_out[1] = 0
        /\ Len(interp_in[3]) = 1 => interp_out[1] = interp_in[3][1][3]
        /\ AtQuery # <<>> => interp_out[1] = AtQuery[1][3]

\* The example of the claim: candidates (0,0,10), (0,0,20) and a third one
\* elsewhere, queried at (0,0), have given 10.
C17_Witness ==
    /\ interp_out = <<10000>>
    /\ interp_in[1] = 0 /\ interp_in[2] = 0
    /\ Len(interp_in[3]) = 3
    /\ interp_in[3][1] = <<3000, 4000, 5000>>
    /\ interp_in[3][2] = <<0, 0, 10000>>
    /\ interp_in[3][3] = <<0, 0, 20000>>

-----------------------------------------------------------------------------
(* Input coordinates of lines and polygons.  The parser hands floats; a    *)
(* malformed feed can hand None or text.  A coordinate is a record whose   *)
(* `kind` says what Python object it is and whose `v` is the number it     *)
(* holds or spells, in millidegrees.                                       *)

Float(v)  == [kind |-> "float",  v |-> v]      \* 48.05
NumStr(v) == [kind |-> "numstr", v |-> v]      \* "48.05"
NoneValue == [kind |-> "none",   v |-> 0]      \* None
Text      == [kind |-> "text",   v |-> 0]      \* "abc"

\* float(c) returns; it raises TypeError on None and ValueError on text.
FloatReturns(c) == c.kind \in {"float", "numstr"}

\* round(c, 6) returns; it raises TypeError on a str.
RoundReturns(c) == c.kind = "float"

\* Whether the vertex loop leaves the function with a TypeError: a vertex
\* <<lon, lat>> got past float() and reaches round(lat, 6), round(lon, 6),
\* which take the vertex as it came.
VertexLoopRaises(coords) ==
    \E i \in DOMAIN coords :
        /\ FloatReturns(coords[i][2]) /\ FloatReturns(coords[i][1])
        /\ ~(RoundReturns(coords[i][2]) /\ RoundReturns(coords[i][1]))

\* The vertex loop: nodes_xze, one <<x, z, elev>> per vertex float() accepts.
ProjectVertices(bb, coords, elevs) ==
    LET kept == SelectSeq(coords, LAMBDA c : FloatReturns(c[2]) /\ FloatReturns(c[1]))
    IN  [i \in DOMAIN kept |->
            LET xz == _xz(bb, kept[i][2].v, kept[i][1].v)
            IN  <<xz[1], xz[2], ElevationGet(elevs, kept[i][2].v, kept[i][1].v)>>]

\* The vertex list as it is, repeats included.
KeepDuplicates(nodes) == nodes

\* Removal of consecutive duplicate (x, z) pairs.
Dedupe(nodes) ==
    LET keep == {i \in DOMAIN nodes :
                    i = 1 \/ <<nodes[i][1], nodes[i][2]>> # <<nodes[i-1][1], nodes[i-1][2]>>}
        F[i \in 0..Len(nodes)] ==
            IF i = 0 THEN <<>>
            ELSE IF i \in keep THEN Append(F[i-1], nodes[i]) ELSE F[i-1]
    IN  F[Len(nodes)]

XZ(nodes) == [i \in DOMAIN nodes |-> <<nodes[i][1], nodes[i][2]>>]

-----------------------------------------------------------------------------
(* The clip rectangle and shapely's LineString.intersection with it.       *)
(* The intersection is an overlay: the line is noded where it meets the    *)
(* rectangle's boundary and where it meets itself, every noded edge in     *)
(* the rectangle is one LineString of the result, and coincident edges     *)
(* are merged into one.  Vertices are in general position: no vertex on    *)
(* the boundary, no vertex in the interior of another segment.             *)

\* A square of twice the half-edge.
InClipBoxWide(p) == Abs(p[1]) <= CS2_MAP_SIZE /\ Abs(p[2]) <= CS2_MAP_SIZE

\* self._clip_box: the closed square of half-edge CS2_HALF_MAP.
InClipBox(p) == Abs(p[1]) <= CS2_HALF_MAP /\ Abs(p[2]) <= CS2_HALF_MAP

\* The millidegree offsets a projected vertex came from.  Orientation tests
\* on them are exact and stay in the machine word.
Lattice(bb, p) == << p[1] \div m_per_lon(bb), (-p[2]) \div m_per_lat >>

Cross(u, v) == u[1] * v[2] - u[2] * v[1]
Minus(u, v) == << u[1] - v[1], u[2] - v[2] >>
Sign(a) == IF a > 0 THEN 1 ELSE IF a < 0 THEN -1 ELSE 0

\* Segments ab and cd cross in a point interior to both.
ProperCross(a, b, c, d) ==
    /\ Sign(Cross(Minus(b, a), Minus(c, a))) * Sign(Cross(Minus(b, a), Minus(d, a))) < 0
    /\ Sign(Cross(Minus(d, c), Minus(a, c))) * Sign(Cross(Minus(d, c), Minus(b, c))) < 0

\* The point in which segments pq and rs cross, to the millimetre.
CrossPoint(bb, p, q, r, s) ==
    LET a   == Lattice(bb, p)
        d0  == Cross(Minus(Lattice(bb, q), a), Minus(Lattice(bb, s), Lattice(bb, r)))
        n0  == Cross(Minus(Lattice(bb, r), a), Minus(Lattice(bb, s), Lattice(bb, r)))
        den == Abs(d0)
        num == IF d0 < 0 THEN -n0 ELSE n0
    IN  << p[1] + MulDiv(q[1] - p[1], num, den), p[2] + MulDiv(q[2] - p[2], num, den) >>

\* A segment that is given no point on the boundary.
NoBoundaryCuts(p, q) == {}

\* The points in which segment pq passes through the rectangle's boundary:
\* on each of the four edge lines strictly between p and q, the point of
\* the segment, kept when it lies on the edge itself.
\* The point is reckoned from the lesser end of the segment, so that a
\* segment walked both ways is cut in one point.
BoundaryCuts(p, q) ==
    LET a == IF p[1] < q[1] \/ (p[1] = q[1] /\ p[2] <= q[2]) THEN p ELSE q
        b == IF a = p THEN q ELSE p
        OnVertical(c) ==
            IF a[1] < c /\ c < b[1]
            THEN {<<c, a[2] + MulDiv(b[2] - a[2], c - a[1], b[1] - a[1])>>}
            ELSE {}
        OnHorizontal(c) ==
            IF (a[2] < c /\ c < b[2]) \/ (b[2] < c /\ c < a[2])
            THEN {<<a[1] + MulDiv(b[1] - a[1], Abs(c - a[2]), Abs(b[2] - a[2])), c>>}
            ELSE {}
    IN  { r \in OnVertical(CS2_HALF_MAP) \cup OnVertical(-CS2_HALF_MAP)
                \cup OnHorizontal(CS2_HALF_MAP) \cup OnHorizontal(-CS2_HALF_MAP) :
            InClipBox(r) }

\* The points in which segment i of the line properly crosses a segment
\* that is not its neighbour.
SelfCuts(bb, line, i) ==
    { CrossPoint(bb, line[Min2(i, j)], line[Min2(i, j) + 1],
                     line[Max2(i, j)], line[Max2(i, j) + 1]) :
        j \in { k \in 1..(Len(line) - 1) :
                  /\ Abs(k - i) >= 2
                  /\ ProperCross(Lattice(bb, line[i]), Lattice(bb, line[i+1]),
                                 Lattice(bb, line[k]), Lattice(bb, line[k+1])) } }

\* Points of a segment that starts at p, in the order the segment passes them.
RECURSIVE AlongSegment(_, _, _)
AlongSegment(S, p, q) ==
    IF S = {} THEN <<>>
    ELSE LET ax     == IF Abs(q[1] - p[1]) >= Abs(q[2] - p[2]) THEN 1 ELSE 2
             Key(c) == Abs(c[ax] - p[ax])
             first  == CHOOSE c \in S : \A d \in S : Key(c) <= Key(d)
         IN  <<first>> \o AlongSegment(S \ {first}, p, q)

\* Vertex k is a node of the noded line: an end of the line, a point the
\* line passes more than once, or the turning point of a segment that is
\* walked back.
VertexIsNode(line, k) ==
    \/ k = 1 \/ k = Len(line)
    \/ \E m \in DOMAIN line : m # k /\ line[m] = line[k]
    \/ line[k - 1] = line[k + 1]

\* The noded line: every vertex and every cut in line order, each with
\* whether the overlay has a node there.
RECURSIVE Stations(_, _, _)
Stations(bb, line, i) ==
    IF i = Len(line) THEN << [p |-> line[i], node |-> TRUE] >>
    ELSE LET cuts == AlongSegment(BoundaryCuts(line[i], line[i+1]) \cup SelfCuts(bb, line, i),
                                  line[i], line[i+1])
         IN  << [p |-> line[i], node |-> VertexIsNode(line, i)] >>
             \o [c \in DOMAIN cuts |-> [p |-> cuts[c], node |-> TRUE]]
             \o Stations(bb, line, i + 1)

\* The noded edges that lie in the rectangle, in line order.  The stretch
\* between two neighbouring stations is in the (convex, closed) rectangle
\* when both stations are.
RECURSIVE EdgesInBox(_, _, _)
EdgesInBox(st, t, cur) ==
    IF t >= Len(st) THEN <<>>
    ELSE IF InClipBox(st[t].p) /\ InClipBox(st[t+1].p)
    THEN LET grown == (IF cur = <<>> THEN <<st[t].p>> ELSE cur) \o <<st[t+1].p>>
         IN  IF st[t+1].node
             THEN <<grown>> \o EdgesInBox(st, t + 1, <<>>)
             ELSE EdgesInBox(st, t + 1, grown)
    ELSE EdgesInBox(st, t + 1, <<>>)

Reverse(s) == [i \in DOMAIN s |-> s[Len(s) + 1 - i]]

\* Edges with the same points, walked either way, are one edge.
MergeCoincident(edges) ==
    LET keep == {k \in DOMAIN edges :
                    \A j \in 1..(k - 1) : edges[j] # edges[k] /\ Reverse(edges[j]) # edges[k]}
        F[k \in 0..Len(edges)] ==
            IF k = 0 THEN <<>>
            ELSE IF k \in keep THEN Append(F[k-1], edges[k]) ELSE F[k-1]
    IN  F[Len(edges)]

\* The LineString members of xz_line.intersection(self._clip_box).
LineIntersection(bb, line) ==
    MergeCoincident(EdgesInBox(Stations(bb, line, 1), 1, <<>>))

\* One output point: round(cx, 2), round(elev, 2), round(cz, 2).
ConvertPoint(p, nodes) ==
    [x |-> RoundTo(p[1], CM),
     y |-> RoundTo(_interp_elevation(p[1], p[2], nodes), CM),
     z |-> RoundTo(p[2], CM)]

\* How a call ends: with a value, or with an exception leaving it.
Returned(v) == [raised |-> FALSE, value |-> v]
Raised      == [raised |-> TRUE,  value |-> <<>>]

\* What the geometry engine does on one call: GEOS reports a failed overlay
\* as an exception, and on which inputs it fails is the library's affair.
EngineOutcomes == {"returns", "raises"}

\* The engine's exception left to leave the function.
ExceptReraise(default) == Raised

\* except Exception: return <default>
ExceptReturn(default) == Returned(default)

\* clip_and_convert_line(coords, elevations); `engine` is what the geometry
\* engine does if the call gets as far as it.
clip_and_convert_line(bb, coords, elevs, engine) ==
    LET Results(geoms, deduped) ==
            SelectSeq([g \in DOMAIN geoms |->
                          [k \in DOMAIN geoms[g] |-> ConvertPoint(geoms[g][k], deduped)]],
                      LAMBDA seg : Len(seg) >= 2)
        Clip(deduped) ==
            IF Len(deduped) < 2 THEN Returned(<<>>)
            ELSE IF engine = "raises" THEN ExceptReturn(<<>>)
            ELSE Returned(Results(LineIntersection(bb, XZ(deduped)), deduped))
        Deduped(nodes_xze) ==
            IF Len(nodes_xze) < 2 THEN Returned(<<>>)
            ELSE Clip(Dedupe(nodes_xze))
    IN  IF Len(coords) < 2 THEN Returned(<<>>)
        ELSE IF VertexLoopRaises(coords) THEN Raised
        ELSE Deduped(ProjectVertices(bb, coords, elevs))

-----------------------------------------------------------------------------
(* shapely's Polygon(xz_coords).intersection(self._clip_box) for a simple  *)
(* ring in general position.  The parts of the ring inside the rectangle   *)
(* are joined along the rectangle's boundary, in the ring's direction of   *)
(* travel; every closed walk is one polygon of the result.                 *)

\* Polygon() closes a ring that is not closed; the ring without its
\* closing point.
OpenRing(xz) ==
    IF Len(xz) >= 2 /\ xz[1] = xz[Len(xz)] THEN SubSeq(xz, 1, Len(xz) - 1) ELSE xz

\* Polygon() raises on a closed ring of fewer than four coordinates.
RingTooShort(xz) == Len(xz) < 3 \/ Len(OpenRing(xz)) < 3

\* Vertex i+1 of the ring, the first one after the last.
After(ring, i) == ring[(i % Len(ring)) + 1]

\* No vertex is visited twice and no two edges cross.
RingIsSimple(bb, ring) ==
    /\ \A i, j \in DOMAIN ring : i # j => ring[i] # ring[j]
    /\ \A i, j \in DOMAIN ring :
          i < j => ~ProperCross(Lattice(bb, ring[i]), Lattice(bb, After(ring, i)),
                                Lattice(bb, ring[j]), Lattice(bb, After(ring, j)))

\* Twice the signed area on the millidegree lattice, summed edge by edge.
RECURSIVE LatticeArea2(_, _, _)
LatticeArea2(bb, ring, i) ==
    IF i > Len(ring) THEN 0
    ELSE Cross(Lattice(bb, ring[i]), Lattice(bb, After(ring, i))) + LatticeArea2(bb, ring, i + 1)

\* The ring turns counter-clockwise in the (x, z) plane; z is minus the
\* latitude, which turns the lattice's orientation over.
TurnsPositive(bb, ring) == LatticeArea2(bb, ring, 1) < 0

\* The map centre (the lattice origin) lies inside the ring: the ray from
\* it toward +x crosses the ring an odd number of times.
CentreInRing(bb, ring) ==
    LET L(i) == Lattice(bb, ring[i])
        M(i) == Lattice(bb, After(ring, i))
        Hit(i) == /\ (L(i)[2] > 0) # (M(i)[2] > 0)
                  /\ (M(i)[2] - L(i)[2]) * (L(i)[1] * (M(i)[2] - L(i)[2])
                                            - L(i)[2] * (M(i)[1] - L(i)[1])) > 0
    IN  Cardinality({i \in DOMAIN ring : Hit(i)}) % 2 = 1

\* The ring's vertices and boundary cuts in ring order, the closing edge
\* included; `node` marks the cuts.
RECURSIVE RingStations(_, _)
RingStations(ring, i) ==
    IF i > Len(ring) THEN <<>>
    ELSE LET cuts == AlongSegment(BoundaryCuts(ring[i], After(ring, i)), ring[i], After(ring, i))
         IN  << [p |-> ring[i], node |-> FALSE] >>
             \o [c \in DOMAIN cuts |-> [p |-> cuts[c], node |-> TRUE]]
             \o RingStations(ring, i + 1)

\* The stations turned so that they start where the ring enters the
\* rectangle.
FromFirstEntry(st) ==
    LET n  == Len(st)
        entries == {t \in 1..n : st[t].node /\ InClipBox(st[(t % n) + 1].p)}
        t0 == CHOOSE t \in entries : \A u \in entries : t <= u
    IN  [k \in 1..n |-> st[((t0 + k - 2) % n) + 1]]

\* How far along the rectangle's boundary a boundary point lies, walking
\* counter-clockwise in the (x, z) plane from the corner (-half, -half).
PerimeterPos(p) ==
    IF p[2] = -CS2_HALF_MAP THEN p[1] + CS2_HALF_MAP
    ELSE IF p[1] = CS2_HALF_MAP THEN CS2_MAP_SIZE + p[2] + CS2_HALF_MAP
    ELSE IF p[2] = CS2_HALF_MAP THEN 2 * CS2_MAP_SIZE + CS2_HALF_MAP - p[1]
    ELSE 3 * CS2_MAP_SIZE + CS2_HALF_MAP - p[2]

BoxCorners ==
    << <<-CS2_HALF_MAP, -CS2_HALF_MAP>>, <<CS2_HALF_MAP, -CS2_HALF_MAP>>,
       <<CS2_HALF_MAP, CS2_HALF_MAP>>,   <<-CS2_HALF_MAP, CS2_HALF_MAP>> >>

\* The way from boundary point a to boundary point b: forward is
\* counter-clockwise.  Its length, and the corners it passes, in order.
Way(a, b, forward) ==
    LET d == IF forward THEN PerimeterPos(b) - PerimeterPos(a)
                        ELSE PerimeterPos(a) - PerimeterPos(b)
    IN  IF d > 0 THEN d ELSE d + 4 * CS2_MAP_SIZE

CornersOnWay(a, b, forward) ==
    LET passed == {c \in 1..4 : Way(a, BoxCorners[c], forward) < Way(a, b, forward)}
        RECURSIVE Ordered(_)
        Ordered(S) ==
            IF S = {} THEN <<>>
            ELSE LET c == CHOOSE c \in S : \A e \in S :
                              Way(a, BoxCorners[c], forward) <= Way(a, BoxCorners[e], forward)
                 IN  <<BoxCorners[c]>> \o Ordered(S \ {c})
    IN  Ordered(passed)

\* The pieces of the ring inside the rectangle, each from where the ring
\* enters to where it next leaves.
ChainsInBox(ring) == EdgesInBox(FromFirstEntry(RingStations(ring, 1)), 1, <<>>)

\* The chain the walk takes up after chain j: the one whose entry comes
\* first on the way along the rectangle's boundary from j's exit.
NextChain(chains, j, forward) ==
    LET exit == chains[j][Len(chains[j])]
    IN  CHOOSE k \in DOMAIN chains : \A m \in DOMAIN chains :
            Way(exit, chains[k][1], forward) <= Way(exit, chains[m][1], forward)

\* The closed walk that starts with chain j0, from chain j on.
RECURSIVE ClosedWalk(_, _, _, _)
ClosedWalk(chains, j0, j, forward) ==
    LET k == NextChain(chains, j, forward)
    IN  chains[j]
        \o CornersOnWay(chains[j][Len(chains[j])], chains[k][1], forward)
        \o (IF k = j0 THEN <<chains[j0][1]>> ELSE ClosedWalk(chains, j0, k, forward))

\* The chains of the closed walk that starts with chain j0.
RECURSIVE WalkChains(_, _, _, _)
WalkChains(chains, j0, j, forward) ==
    LET k == NextChain(chains, j, forward)
    IN  {j} \cup (IF k = j0 THEN {} ELSE WalkChains(chains, j0, k, forward))

\* The exterior rings (closed) of the polygons of
\* Polygon(ring).intersection(self._clip_box).
PolygonIntersection(bb, ring) ==
    LET cut == \E i \in DOMAIN ring : BoundaryCuts(ring[i], After(ring, i)) # {}
        chains  == ChainsInBox(ring)
        forward == TurnsPositive(bb, ring)
        starts  == {j \in DOMAIN chains :
                       \A m \in WalkChains(chains, j, j, forward) : j <= m}
        F[j \in 0..Len(chains)] ==
            IF j = 0 THEN <<>>
            ELSE IF j \in starts THEN Append(F[j-1], ClosedWalk(chains, j, j, forward))
            ELSE F[j-1]
    IN  IF cut THEN F[Len(chains)]
        ELSE IF \A i \in DOMAIN ring : InClipBox(ring[i]) THEN << Append(ring, ring[1]) >>
        ELSE IF CentreInRing(bb, ring) THEN << Append(BoxCorners, BoxCorners[1]) >>
        ELSE <<>>

\* g.area of a closed ring, in units of 100 square metres.
RECURSIVE Shoelace(_, _)
Shoelace(pts, i) ==
    IF i >= Len(pts) THEN 0
    ELSE Cross(<<pts[i][1] \div 10000, pts[i][2] \div 10000>>,
               <<pts[i+1][1] \div 10000, pts[i+1][2] \div 10000>>) + Shoelace(pts, i + 1)

Area(pts) == Abs(Shoelace(pts, 1)) \div 2

\* The first piece, whatever its area.
FirstPiece(pieces) == pieces[1]

\* max(clipped.geoms, key=lambda g: g.area): the first of the largest.
LargestPiece(pieces) ==
    pieces[CHOOSE i \in DOMAIN pieces :
              \A j \in DOMAIN pieces :
                  Area(pieces[i]) > Area(pieces[j]) \/ (Area(pieces[i]) = Area(pieces[j]) /\ i <= j)]

\* What clip_and_convert_polygon returns: the None sentinel or a list of
\* points.  The sentinel and the empty list are different values.
EmptyPointList == [is_none |-> FALSE, points |-> <<>>]
NoPolygon      == [is_none |-> TRUE,  points |-> <<>>]
PointList(pts) == [is_none |-> FALSE, points |-> pts]

\* clip_and_convert_polygon(coords, elevations)
clip_and_convert_polygon(bb, coords, elevs, engine) ==
    LET Points(points) ==
            IF Len(points) >= 3 THEN Returned(PointList(points)) ELSE Returned(NoPolygon)
        Exterior(ext, nodes_xze) ==
            Points([k \in DOMAIN ext |-> ConvertPoint(ext[k], nodes_xze)])
        Largest(pieces, nodes_xze) ==
            IF pieces = <<>> THEN Returned(NoPolygon)
            ELSE Exterior(LargestPiece(pieces), nodes_xze)
        Clip(xz_coords, nodes_xze) ==
            IF Len(xz_coords) < 3 THEN Returned(NoPolygon)
            ELSE IF RingTooShort(xz_coords) \/ engine = "raises" THEN ExceptReturn(NoPolygon)
            ELSE Largest(PolygonIntersection(bb, OpenRing(xz_coords)), nodes_xze)
        Deduped(nodes_xze) == Clip(XZ(Dedupe(nodes_xze)), nodes_xze)
    IN  IF Len(coords) < 3 THEN Returned(NoPolygon)
        ELSE IF VertexLoopRaises(coords) THEN Raised
        ELSE Deduped(ProjectVertices(bb, coords, elevs))

-----------------------------------------------------------------------------
(* CS2Converter.convert_roads, convert_railways, convert_waterways.        *)
(* A tag value that is a string is a record of what the string spells:     *)
(* maxspeed "50" is Plain(50), "30 mph" is Spaced(30, "mph"), "30mph" is   *)
(* Glued(30, "mph"), "walk" is Word, "" is NoSpeed.                        *)

NoSpeed          == [kind |-> "empty",  n |-> 0, unit |-> ""]
Plain(n)         == [kind |-> "plain",  n |-> n, unit |-> ""]
Spaced(n, unit)  == [kind |-> "spaced", n |-> n, unit |-> unit]
Glued(n, unit)   == [kind |-> "glued",  n |-> n, unit |-> unit]
Word             == [kind |-> "word",   n |-> 0, unit |-> ""]

\* _parse_speed: int() of the first blank-separated token, 50 when there
\* is none or it is not an integer; miles per hour become int(n * 1.60934).
_parse_speed(maxspeed) ==
    IF maxspeed.kind = "empty" THEN 50
    ELSE IF maxspeed.kind \in {"plain", "spaced"}
    THEN IF maxspeed.unit = "mph" THEN (maxspeed.n * 160934) \div 100000 ELSE maxspeed.n
    ELSE 50

ROAD_TYPE_MAP ==
    [ motorway |-> "Highway", trunk |-> "Highway", primary |-> "LargeRoad",
      secondary |-> "MediumRoad", tertiary |-> "SmallRoad",
      residential |-> "SmallRoad", service |-> "TinyRoad" ]

WATERWAY_TYPE_MAP ==
    [ river |-> "River", canal |-> "Canal", stream |-> "Stream", drain |-> "Drain",
      ditch |-> "Drain", coastline |-> "Coastline", water |-> "Lake",
      reservoir |-> "Reservoir" ]

_map_railway_type(osm_type) ==
    DictGet([rail |-> "Train", light_rail |-> "Metro", subway |-> "Subway", tram |-> "Tram"],
            osm_type, "Train")

\* An id with the ordinal whatever the number of segments.
SegmentIdAlwaysNumbered(prefix, id, idx, n) == <<prefix, id, idx>>

\* f"{prefix}_{id}" if len(segments) == 1 else f"{prefix}_{id}_{idx}"
SegmentId(prefix, id, idx, n) ==
    IF n = 1 THEN PrefixedId(prefix, id) ELSE <<prefix, id, idx>>

RECURSIVE Flatten(_)
Flatten(ss) == IF ss = <<>> THEN <<>> ELSE Head(ss) \o Flatten(Tail(ss))

\* The records one road makes, from what its clip gave: one for each
\* segment; an exception of the clip leaves the loop.
RoadRecords(road, clip) ==
    IF clip.raised THEN Raised
    ELSE Returned([i \in DOMAIN clip.value |->
            [id         |-> SegmentId("road", road.id, i - 1, Len(clip.value)),
             type       |-> DictGet(ROAD_TYPE_MAP, road.type, "SmallRoad"),
             name       |-> road.name,
             points     |-> clip.value[i],
             lanes      |-> road.lanes,
             oneWay     |-> road.oneway,
             speedLimit |-> _parse_speed(road.maxspeed),
             priority   |-> road.priority]])

RailRecords(rail, clip) ==
    IF clip.raised THEN Raised
    ELSE Returned([i \in DOMAIN clip.value |->
            [id          |-> SegmentId("rail", rail.id, i - 1, Len(clip.value)),
             type        |-> _map_railway_type(rail.type),
             name        |-> rail.name,
             points      |-> clip.value[i],
             electrified |-> rail.electrified = "yes"]])

\* The records one waterway makes: an area makes one or none, a line one
\* for each segment.  A width is <<w>>, and None where there is none.
AreaRecords(ww, clip) ==
    IF clip.raised THEN Raised
    ELSE IF clip.value.is_none THEN Returned(<<>>)
    ELSE Returned(<< [id     |-> PrefixedId("water", ww.id),
                      type   |-> DictGet(WATERWAY_TYPE_MAP, ww.type, "Stream"),
                      name   |-> ww.name,
                      isArea |-> TRUE,
                      points |-> clip.value.points,
                      width  |-> None] >>)

LinearRecords(ww, clip) ==
    IF clip.raised THEN Raised
    ELSE Returned([i \in DOMAIN clip.value |->
            [id     |-> SegmentId("water", ww.id, i - 1, Len(clip.value)),
             type   |-> DictGet(WATERWAY_TYPE_MAP, ww.type, "Stream"),
             name   |-> ww.name,
             isArea |-> FALSE,
             points |-> clip.value[i],
             width  |-> ww.width]])

WaterRecords(bb, elevs, ww, engine) ==
    IF ww.is_area
    THEN AreaRecords(ww, clip_and_convert_polygon(bb, ww.coordinates, elevs, engine))
    ELSE LinearRecords(ww, clip_and_convert_line(bb, ww.coordinates, elevs, engine))

\* The loop over the features: the records of all of them in list order,
\* or the exception that left it.
FeatureLoop(made) ==
    IF \E i \in DOMAIN made : made[i].raised THEN Raised
    ELSE Returned(Flatten([i \in DOMAIN made |-> made[i].value]))

\* convert_roads(roads); engines[i] is what the geometry engine does on
\* road i.
convert_roads(bb, elevs, roads, engines) ==
    FeatureLoop([i \in DOMAIN roads |->
        RoadRecords(roads[i],
                    clip_and_convert_line(bb, roads[i].coordinates, elevs, engines[i]))])

convert_railways(bb, elevs, railways, engines) ==
    FeatureLoop([i \in DOMAIN railways |->
        RailRecords(railways[i],
                    clip_and_convert_line(bb, railways[i].coordinates, elevs, engines[i]))])

convert_waterways(bb, elevs, waterways, engines) ==
    FeatureLoop([i \in DOMAIN waterways |-> WaterRecords(bb, elevs, waterways[i], engines[i])])

-----------------------------------------------------------------------------
(* Specification SpecClip: a converter built with the small box and an     *)
(* elevation table, and a feature list the parser made.  One of            *)
(* convert_roads, convert_railways and convert_waterways is called on the  *)
(* list; when it is empty, clip_and_convert_line or                        *)
(* clip_and_convert_polygon may be called on coordinates of their own.     *)

MaxVertices == 4
MaxFeatures == 2

\* A vertex <<lon, lat>> of floats.
V(lon, lat) == <<Float(lon), Float(lat)>>

\* Vertices about the map centre (lon 2.1, lat 48.05): P1, P3, P4 and P9 in
\* the map; P2, P6 and P8 beyond its east edge, P5 beyond the west edge, P7
\* beyond the north edge.  No three of them are in line.
P1 == V(2050, 48050)
P2 == V(2500, 48050)
P3 == V(2150, 48100)
P4 == V(2150, 47990)
P5 == V(1680, 48080)
P6 == V(2510, 48140)
P7 == V(2130, 48350)
P8 == V(2900, 48060)
P9 == V(2200, 48061)

GeoVertices == {P1, P2, P3, P4, P5, P6, P7, P9}

\* Vertices that are not pairs of floats: a None latitude, a longitude and
\* a latitude given as numeric strings, a latitude that is text.
BadVertices ==
    { <<Float(2050), NoneValue>>, <<NumStr(2150), NumStr(48100)>>, <<Float(2050), Text>> }

\* Lines with a vertex that is not a pair of floats, at either end or in
\* the middle.
MalformedLines ==
    { <<P1, b, P3>> : b \in BadVertices } \cup { <<b, P1, P2>> : b \in BadVertices }
    \cup { <<P1, P2, b>> : b \in BadVertices } \cup { <<P1, b>> : b \in BadVertices }

LineCoords == Lists(GeoVertices, MaxVertices) \cup MalformedLines

\* Rings: every triangle and every simple quadrilateral on the vertices,
\* open or closed; a ring about the whole map, one wholly east of it and
\* one whose two wings reach into it from the east; rings too short to be
\* one; rings with a vertex that is not a pair of floats.
OpenRings ==
    { r \in [1..3 -> GeoVertices] \cup [1..4 -> GeoVertices] :
        RingIsSimple(SmallBbox, XZ(ProjectVertices(SmallBbox, r, {}))) }
    \cup { <<V(1300, 47450), V(2900, 47450), V(2100, 48950)>>,
           <<P2, P6, P8>>, <<P3, P2, P4, P8>> }

PolygonCoords ==
    OpenRings \cup { Append(r, r[1]) : r \in OpenRings }
    \cup { <<P1, P3>>, <<P1, P3, P1>>, <<P1, P1, P3>>, <<P1, P1, P3, P3, P4, P1>> }
    \cup { <<P1, b, P3, P4>> : b \in BadVertices }

ClipElevationTables == { {}, {<<48050, 2500, 35123>>, <<48100, 2150, 12344>>} }

\* The coordinates of the features of a batch: a line in the map, one that
\* leaves it, one outside it, one that leaves and comes back, one that
\* passes through it twice, one that crosses itself, one of a single
\* repeated vertex, and lines with a vertex that is not a pair of floats.
FeatureLines ==
    { <<P1, P3>>, <<P1, P2>>, <<P2, P6>>, <<P1, P2, P3>>, <<P5, P6, P2, P5>>,
      <<P3, P4, P1, P2>>, <<P1, P1>>,
      <<P1, <<Float(2050), NoneValue>>, P3>>, <<P1, <<NumStr(2150), NumStr(48100)>>, P4>> }

\* Closed ways of area waterways: in the map, across its east edge, east
\* of it, about the whole map, with two wings in the map, too short.
FeatureRings ==
    { <<P1, P3, P4, P1>>, <<P1, P2, P3, P1>>, <<P2, P6, P8, P2>>,
      <<V(1300, 47450), V(2900, 47450), V(2100, 48950), V(1300, 47450)>>,
      <<P3, P2, P4, P8, P3>>, <<P1, P3, P1>> }

ParsedRoads ==
    { [type |-> "primary", maxspeed |-> Plain(50), lanes |-> 2, oneway |-> FALSE,
       priority |-> 4, coordinates |-> c] : c \in FeatureLines }
    \cup { [type |-> "path", maxspeed |-> Spaced(30, "mph"), lanes |-> 1, oneway |-> TRUE,
            priority |-> 0, coordinates |-> c] : c \in {<<P1, P2>>, <<P1, P2, P3>>} }

ParsedRailways ==
    { [type |-> "tram", electrified |-> "yes", coordinates |-> c] : c \in FeatureLines }
    \cup { [type |-> "narrow_gauge", electrified |-> "", coordinates |-> <<P1, P2>>] }

ParsedWaterways ==
    { [type |-> "river", is_area |-> FALSE, width |-> <<12000>>, coordinates |-> c] :
        c \in FeatureLines }
    \cup { [type |-> "water", is_area |-> TRUE, width |-> None, coordinates |-> c] :
             c \in FeatureRings }

\* The parsed records with their ids: list positions stand for the OSM ids.
RoadInputs(rs) ==
    [i \in DOMAIN rs |->
        [id |-> i, type |-> rs[i].type, priority |-> rs[i].priority, name |-> "road name",
         lanes |-> rs[i].lanes, oneway |-> rs[i].oneway, maxspeed |-> rs[i].maxspeed,
         coordinates |-> rs[i].coordinates]]

RailwayInputs(rs) ==
    [i \in DOMAIN rs |->
        [id |-> i, type |-> rs[i].type, name |-> "railway name",
         electrified |-> rs[i].electrified, coordinates |-> rs[i].coordinates]]

WaterwayInputs(ws) ==
    [i \in DOMAIN ws |->
        [id |-> i, type |-> ws[i].type, name |-> "waterway name", is_area |-> ws[i].is_area,
         coordinates |-> ws[i].coordinates, width |-> ws[i].width]]

\* The feature lists the parser hands to a converter: up to MaxFeatures
\* roads, railways or waterways.
FeatureBatches ==
    { RoadInputs(rs) : rs \in Lists(ParsedRoads, MaxFeatures) }
    \cup { RailwayInputs(rs) : rs \in Lists(ParsedRailways, MaxFeatures) }
    \cup { WaterwayInputs(ws) : ws \in Lists(ParsedWaterways, MaxFeatures) }

\* What kind of features a batch holds; the empty batch is of every kind.
BatchOf(field) == \A i \in DOMAIN osm_features : field \in DOMAIN osm_features[i]

ClipInit ==
    /\ bbox = SmallBbox
    /\ elevations \in ClipElevationTables
    /\ fare_overrides = <<>>
    /\ transit_data = NoTransit
    /\ cs2_transit = NoTransit
    /\ transit_done = FALSE
    /\ ClipIdle
    /\ osm_features \in FeatureBatches
    /\ conv_ret = NotCalled

\* What a call leaves behind: its name, what the engine did, and how it
\* ended.
Outcome(call, engine, ret) ==
    [call |-> call, engine |-> engine, raised |-> ret.raised, value |-> ret.value]

\* Nothing has been called on the converter yet.
Uncalled == clip_ret.call = "none" /\ conv_ret.call = "none"

\* A call of clip_and_convert_line.
ClipLine ==
    /\ Uncalled /\ osm_features = <<>>
    /\ \E coords \in LineCoords : \E engine \in EngineOutcomes :
          /\ clip_args' = [coords |-> coords, elevations |-> elevations]
          /\ clip_ret' = Outcome("clip_and_convert_line", <<engine>>,
                                 clip_and_convert_line(bbox, coords, elevations, engine))
    /\ UNCHANGED <<interp_in, interp_out, osm_features, conv_ret,
                   chunk_vars, cell_vars, transit_vars, main_vars, other_vars>>

\* A call of clip_and_convert_polygon.
ClipPolygon ==
    /\ Uncalled /\ osm_features = <<>>
    /\ \E coords \in PolygonCoords : \E engine \in EngineOutcomes :
          /\ clip_args' = [coords |-> coords, elevations |-> elevations]
          /\ clip_ret' = Outcome("clip_and_convert_polygon", <<engine>>,
                                 clip_and_convert_polygon(bbox, coords, elevations, engine))
    /\ UNCHANGED <<interp_in, interp_out, osm_features, conv_ret,
                   chunk_vars, cell_vars, transit_vars, main_vars, other_vars>>

\* A call of convert_roads.
ConvertRoads ==
    /\ Uncalled /\ BatchOf("maxspeed")
    /\ \E engines \in [DOMAIN osm_features -> EngineOutcomes] :
          conv_ret' = Outcome("convert_roads", engines,
                              convert_roads(bbox, elevations, osm_features, engines))
    /\ UNCHANGED <<interp_in, interp_out, clip_args, clip_ret, osm_features,
                   chunk_vars, cell_vars, transit_vars, main_vars, other_vars>>

\* A call of convert_railways.
ConvertRailways ==
    /\ Uncalled /\ BatchOf("electrified")
    /\ \E engines \in [DOMAIN osm_features -> EngineOutcomes] :
          conv_ret' = Outcome("convert_railways", engines,
                              convert_railways(bbox, elevations, osm_features, engines))
    /\ UNCHANGED <<interp_in, interp_out, clip_args, clip_ret, osm_features,
                   chunk_vars, cell_vars, transit_vars, main_vars, other_vars>>

\* A call of convert_waterways.
ConvertWaterways ==
    /\ Uncalled /\ BatchOf("is_area")
    /\ \E engines \in [DOMAIN osm_features -> EngineOutcomes] :
          conv_ret' = Outcome("convert_waterways", engines,
                              convert_waterways(bbox, elevations, osm_features, engines))
    /\ UNCHANGED <<interp_in, interp_out, clip_args, clip_ret, osm_features,
                   chunk_vars, cell_vars, transit_vars, main_vars, other_vars>>

InitClip == ClipInit /\ InterpIdle /\ ChunkIdle /\ CellIdle /\ MainIdle /\ OtherIdle

NextClip == ClipLine \/ ClipPolygon \/ ConvertRoads \/ ConvertRailways \/ ConvertWaterways

SpecClip == InitClip /\ [][NextClip]_vars

-----------------------------------------------------------------------------
(* Claims about the clipper.                                               *)

LineReturned ==
    clip_ret.call = "clip_and_convert_line" /\ ~clip_ret.raised

PolygonReturned ==
    clip_ret.call = "clip_and_convert_polygon" /\ ~clip_ret.raised

\* The vertices of the call's coordinates are all pairs of floats.
AllFloats(coords) ==
    \A i \in DOMAIN coords : coords[i][1].kind = "float" /\ coords[i][2].kind = "float"

\* The planar position of a vertex of floats.
Planar(v) == _xz(bbox, v[2].v, v[1].v)

PointInMap(pt) == Abs(pt.x) <= CS2_HALF_MAP /\ Abs(pt.z) <= CS2_HALF_MAP

\* C11: every point of every segment clip_and_convert_line returns and of
\* every ring clip_and_convert_polygon returns has |x| <= 28672 m and
\* |z| <= 28672 m, rounding to two decimals included.
C11_ClippedPointsInMap ==
    /\ LineReturned =>
          \A s \in DOMAIN clip_ret.value : \A k \in DOMAIN clip_ret.value[s] :
              PointInMap(clip_ret.value[s][k])
    /\ PolygonReturned =>
          \A k \in DOMAIN clip_ret.value.points : PointInMap(clip_ret.value.points[k])

\* A line with vertices beyond the east and the west edge has come back as
\* two segments, with a point on the east and a point on the west edge.
C11_Witness ==
    /\ LineReturned
    /\ clip_args.coords = <<P5, P6, P2, P5>>
    /\ Len(clip_ret.value) = 2
    /\ \E k \in DOMAIN clip_ret.value[1] : clip_ret.value[1][k].x = CS2_HALF_MAP
    /\ \E k \in DOMAIN clip_ret.value[1] : clip_ret.value[1][k].x = -CS2_HALF_MAP


\* A converter has been called and has returned.
ConverterReturned == conv_ret.call # "none" /\ ~conv_ret.raised

\* The records of conv_ret that feature `id` of the batch made.
RecordsOf(id) == SelectSeq(conv_ret.value, LAMBDA r : r.id[2] = id)

\* Feature i of the batch is an area waterway.
IsArea(i) == conv_ret.call = "convert_waterways" /\ osm_features[i].is_area

\* The number of vertices of `coords` that are pairs of floats and differ
\* from the pair of floats before them.
DistinctVertices(coords) ==
    LET usable == SelectSeq(coords, LAMBDA c : c[1].kind = "float" /\ c[2].kind = "float")
    IN  Cardinality({i \in DOMAIN usable : i = 1 \/ usable[i] # usable[i-1]})

\* C12: every line record (road, railway, linear waterway) has at least 2
\* points and every area waterway record at least 3, and so has every
\* segment and ring the clipper returns; coordinates with fewer than 2
\* (for an area, 3) vertices once consecutive duplicates are removed make
\* no record.
C12_RecordsHaveEnoughPoints ==
    /\ LineReturned =>
          /\ \A s \in DOMAIN clip_ret.value : Len(clip_ret.value[s]) >= 2
          /\ DistinctVertices(clip_args.coords) < 2 => clip_ret.value = <<>>
    /\ PolygonReturned =>
          /\ clip_ret.value.is_none \/ Len(clip_ret.value.points) >= 3
          /\ DistinctVertices(clip_args.coords) < 3 => clip_ret.value.is_none
    /\ ConverterReturned =>
          /\ \A k \in DOMAIN conv_ret.value :
                Len(conv_ret.value[k].points) >=
                    (IF conv_ret.call = "convert_waterways" /\ conv_ret.value[k].isArea
                     THEN 3 ELSE 2)
          /\ \A i \in DOMAIN osm_features :
                DistinctVertices(osm_features[i].coordinates) < (IF IsArea(i) THEN 3 ELSE 2)
                    => RecordsOf(i) = <<>>

\* A batch of a linear waterway of one repeated vertex and an area
\* waterway in the map has made the area's record alone.
C12_Witness ==
    /\ ConverterReturned
    /\ conv_ret.call = "convert_waterways"
    /\ Len(osm_features) = 2
    /\ ~osm_features[1].is_area /\ osm_features[1].coordinates = <<P1, P1>>
    /\ osm_features[2].is_area /\ osm_features[2].coordinates = <<P1, P3, P4, P1>>
    /\ Len(conv_ret.value) = 1
    /\ conv_ret.value[1].isArea
    /\ conv_ret.value[1].id = PrefixedId("water", 2)
    /\ Len(conv_ret.value[1].points) = 4

\* No point of the line through the vertices is in the map square: every
\* vertex is outside it and no stretch between two vertices meets its
\* boundary.
EntirelyOutsideLine(coords) ==
    /\ AllFloats(coords)
    /\ \A i \in DOMAIN coords : ~InClipBox(Planar(coords[i]))
    /\ \A i \in 1..(Len(coords) - 1) :
          BoundaryCuts(Planar(coords[i]), Planar(coords[i+1])) = {}

\* No point of the polygon is in the map square: its ring is outside and
\* does not go round the square.
EntirelyOutsidePolygon(coords) ==
    /\ Len(coords) >= 3
    /\ EntirelyOutsideLine(Append(coords, coords[1]))
    /\ ~CentreInRing(bbox, [i \in DOMAIN coords |-> Planar(coords[i])])

\* C13: a polyline entirely outside the map square makes
\* clip_and_convert_line return the empty list, a polygon entirely outside
\* makes clip_and_convert_polygon return the None sentinel and not an empty
\* point list, neither raises, and the converters make no record of such a
\* feature.
C13_OutsideGivesNothing ==
    /\ clip_ret.call = "clip_and_convert_line" /\ EntirelyOutsideLine(clip_args.coords) =>
          ~clip_ret.raised /\ clip_ret.value = <<>>
    /\ clip_ret.call = "clip_and_convert_polygon" /\ EntirelyOutsidePolygon(clip_args.coords) =>
          ~clip_ret.raised /\ clip_ret.value.is_none
    /\ ConverterReturned =>
          \A i \in DOMAIN osm_features :
              (IF IsArea(i) THEN EntirelyOutsidePolygon(osm_features[i].coordinates)
                            ELSE EntirelyOutsideLine(osm_features[i].coordinates))
              => RecordsOf(i) = <<>>

\* The triangle east of the map has been clipped, the engine returning,
\* and the None sentinel has come back.
C13_Witness ==
    /\ PolygonReturned
    /\ clip_args.coords = <<P2, P6, P8>>
    /\ EntirelyOutsidePolygon(clip_args.coords)
    /\ clip_ret.engine = <<"returns">>
    /\ clip_ret.value.is_none


\* The clipper's engine has returned on a line of at least two distinct
\* vertices, all of them pairs of floats.
LineClipped ==
    /\ LineReturned
    /\ clip_ret.engine = <<"returns">>
    /\ AllFloats(clip_args.coords)
    /\ DistinctVertices(clip_args.coords) >= 2

\* How many times the line through the vertices passes through the
\* boundary of the map square.
RECURSIVE Crossings(_)
Crossings(coords) ==
    IF Len(coords) < 2 THEN 0
    ELSE Cardinality(BoundaryCuts(Planar(coords[1]), Planar(coords[2])))
         + Crossings(Tail(coords))

\* The number of maximal runs of the line inside the square: a run ends at
\* a crossing or at an end of the line that is inside.
InsideRuns(coords) ==
    (Crossings(coords)
       + (IF InClipBox(Planar(coords[1])) THEN 1 ELSE 0)
       + (IF InClipBox(Planar(coords[Len(coords)])) THEN 1 ELSE 0)) \div 2

\* C14: a polyline that crosses the map boundary exactly twice yields
\* exactly one segment, one that crosses it four times exactly two, each of
\* at least 2 points, and in general every maximal run of the polyline
\* inside the square is one segment of the output.
C14_OneSegmentPerInsideRun ==
    LineClipped =>
        /\ Crossings(clip_args.coords) = 2 => Len(clip_ret.value) = 1
        /\ Crossings(clip_args.coords) = 4 => Len(clip_ret.value) = 2
        /\ \A s \in DOMAIN clip_ret.value : Len(clip_ret.value[s]) >= 2
        /\ Len(clip_ret.value) = InsideRuns(clip_args.coords)

\* The vertices without those that repeat the vertex before them.
RECURSIVE WithoutRepeats(_)
WithoutRepeats(s) ==
    IF Len(s) <= 1 THEN s
    ELSE IF s[1] = s[2] THEN WithoutRepeats(Tail(s))
    ELSE <<s[1]>> \o WithoutRepeats(Tail(s))

\* The planar position of a vertex, rounded as the output is.
RoundedPlanar(v) == << RoundTo(Planar(v)[1], CM), RoundTo(Planar(v)[2], CM) >>

\* The (x, z) pairs of a list of output points.
PlanarOf(points) == [k \in DOMAIN points |-> << points[k].x, points[k].z >>]

\* C15: a polyline all of whose vertices are inside the map square comes
\* back as exactly one segment, whose points are the vertices without
\* consecutive repeats, in order and rounded; so does one that revisits a
\* vertex or crosses itself.
C15_InsideLineUnchanged ==
    LineClipped /\ (\A i \in DOMAIN clip_args.coords : InClipBox(Planar(clip_args.coords[i]))) =>
        /\ Len(clip_ret.value) = 1
        /\ PlanarOf(clip_ret.value[1]) =
              [k \in DOMAIN WithoutRepeats(clip_args.coords) |->
                  RoundedPlanar(WithoutRepeats(clip_args.coords)[k])]

\* The rounded positions of the vertices of the call.
InputPositions == { RoundedPlanar(clip_args.coords[i]) : i \in DOMAIN clip_args.coords }

\* The rounded points in which the line of the call crosses itself.
SelfCrossings ==
    LET line == [i \in DOMAIN clip_args.coords |-> Planar(clip_args.coords[i])]
    IN  UNION { { << RoundTo(c[1], CM), RoundTo(c[2], CM) >> : c \in SelfCuts(bbox, line, i) } :
                  i \in 1..(Len(line) - 1) }

OnBoundary(xz) == Abs(xz[1]) = CS2_HALF_MAP \/ Abs(xz[2]) = CS2_HALF_MAP

\* C16: the line from lon 2.05 to lon 2.50 at lat 48.05 in the box
\* (48.0, 2.0, 48.1, 2.2) comes back as one segment that ends at
\* x = 28672 m exactly; and any point of a clipped line or polygon that is
\* neither a vertex of the input nor a point where the line meets itself
\* has x or z exactly on the square's edge, 28672 m or -28672 m.
C16_ClipPointsOnBoundary ==
    /\ LineClipped /\ clip_args.coords = <<P1, P2>> =>
          /\ Len(clip_ret.value) = 1
          /\ clip_ret.value[1][Len(clip_ret.value[1])].x = CS2_HALF_MAP
    /\ LineClipped =>
          \A s \in DOMAIN clip_ret.value : \A k \in DOMAIN clip_ret.value[s] :
              LET xz == << clip_ret.value[s][k].x, clip_ret.value[s][k].z >>
              IN  xz \in InputPositions \/ xz \in SelfCrossings \/ OnBoundary(xz)
    /\ PolygonReturned /\ AllFloats(clip_args.coords) =>
          \A k \in DOMAIN clip_ret.value.points :
              LET xz == << clip_ret.value.points[k].x, clip_ret.value.points[k].z >>
              IN  xz \in InputPositions \/ OnBoundary(xz)

\* The line of the example has been clipped: one segment from the vertex
\* in the map to a point on the east edge, at the line's latitude.
C16_Witness ==
    /\ LineClipped
    /\ clip_args.coords = <<P1, P2>>
    /\ Len(clip_ret.value) = 1
    /\ Len(clip_ret.value[1]) = 2
    /\ clip_ret.value[1][1].x = RoundedPlanar(P1)[1]
    /\ clip_ret.value[1][2].x = CS2_HALF_MAP
    /\ clip_ret.value[1][2].z = 0


\* The prefix of the ids the called converter makes.
KindPrefix ==
    IF conv_ret.call = "convert_roads" THEN "road"
    ELSE IF conv_ret.call = "convert_railways" THEN "rail"
    ELSE "water"

\* The segments the clip of line feature i yields.
SegmentsOf(i) ==
    clip_and_convert_line(bbox, osm_features[i].coordinates, elevations,
                          conv_ret.engine[i]).value

\* C18: a road, railway or linear waterway whose clip yields k segments
\* makes exactly k records, in segment order: for k = 1 the id is the
\* prefix and the feature id with no suffix, for k > 1 the ids are prefix,
\* feature id and ordinal 0..k-1, and for k = 0 there is no record.
C18_OneRecordPerSegment ==
    ConverterReturned =>
        \A i \in DOMAIN osm_features :
            ~IsArea(i) =>
                LET recs == RecordsOf(i)
                    k    == Len(SegmentsOf(i))
                IN  /\ Len(recs) = k
                    /\ \A j \in 1..k : recs[j].points = SegmentsOf(i)[j]
                    /\ k = 1 => recs[1].id = <<KindPrefix, osm_features[i].id>>
                    /\ k > 1 => \A j \in 1..k :
                                   recs[j].id = <<KindPrefix, osm_features[i].id, j - 1>>

\* A batch of a road that leaves the map and comes back and a road in the
\* map has made three records: road 1 with ordinals 0 and 1, road 2 with
\* no suffix.
C18_Witness ==
    /\ ConverterReturned
    /\ conv_ret.call = "convert_roads"
    /\ Len(osm_features) = 2
    /\ osm_features[1].coordinates = <<P1, P2, P3>>
    /\ osm_features[2].coordinates = <<P1, P3>>
    /\ Len(conv_ret.value) = 3
    /\ conv_ret.value[1].id = <<"road", 1, 0>>
    /\ conv_ret.value[2].id = <<"road", 1, 1>>
    /\ conv_ret.value[3].id = <<"road", 2>>

\* A vertex of the coordinates is a numeric string.
HasNumericString(coords) ==
    \E i \in DOMAIN coords : coords[i][1].kind = "numstr" \/ coords[i][2].kind = "numstr"

\* C19: a failure of the geometry engine on a feature (a failed
\* intersection, a ring too short to be one) never leaves the clipper or
\* the converter: clip_and_convert_line returns [] and
\* clip_and_convert_polygon returns None for that feature, and
\* convert_roads, convert_railways and convert_waterways make the records
\* of every other feature of the batch.
C19_EngineFailureAbsorbed ==
    /\ clip_ret.call # "none" /\ ~HasNumericString(clip_args.coords) => ~clip_ret.raised
    /\ LineReturned /\ clip_ret.engine = <<"raises">> => clip_ret.value = <<>>
    /\ PolygonReturned /\ clip_ret.engine = <<"raises">> => clip_ret.value.is_none
    /\ PolygonReturned /\ AllFloats(clip_args.coords) /\ DistinctVertices(clip_args.coords) = 3
          /\ clip_args.coords[1] = clip_args.coords[Len(clip_args.coords)]
          => clip_ret.value.is_none
    /\ conv_ret.call # "none"
          /\ (\A i \in DOMAIN osm_features : ~HasNumericString(osm_features[i].coordinates))
          => /\ ~conv_ret.raised
             /\ \A i \in DOMAIN osm_features :
                   /\ conv_ret.engine[i] = "raises" => RecordsOf(i) = <<>>
                   /\ conv_ret.engine[i] = "returns" /\ ~IsArea(i) =>
                         Len(RecordsOf(i)) = Len(SegmentsOf(i))
                   /\ conv_ret.engine[i] = "returns" /\ IsArea(i)
                         /\ osm_features[i].coordinates = <<P1, P3, P4, P1>> =>
                         Len(RecordsOf(i)) = 1

\* The engine has failed on the first of two railways that leave the map
\* through the east edge; the second one's record has been made.
C19_Witness ==
    /\ ConverterReturned
    /\ conv_ret.call = "convert_railways"
    /\ conv_ret.engine = <<"raises", "returns">>
    /\ osm_features[1].coordinates = <<P1, P2>>
    /\ osm_features[2].coordinates = <<P1, P2>>
    /\ Len(conv_ret.value) = 1
    /\ conv_ret.value[1].id = <<"rail", 2>>
    /\ Len(conv_ret.value[1].points) = 2

\* The vertices that are pairs of floats.
PlainVertices(coords) ==
    SelectSeq(coords, LAMBDA c : c[1].kind = "float" /\ c[2].kind = "float")

\* C20: a line or polygon vertex whose latitude or longitude is None, a
\* numeric string or text is dropped without raising: no call of the
\* clipper or of a converter raises, and what the clipper returns is what
\* it returns for the remaining vertices.
C20_MalformedVertexSkipped ==
    /\ clip_ret.call # "none" => ~clip_ret.raised
    /\ conv_ret.call # "none" => ~conv_ret.raised
    /\ LineReturned =>
          clip_ret.value = clip_and_convert_line(bbox, PlainVertices(clip_args.coords),
                                                 elevations, clip_ret.engine[1]).value
    /\ PolygonReturned =>
          clip_ret.value = clip_and_convert_polygon(bbox, PlainVertices(clip_args.coords),
                                                    elevations, clip_ret.engine[1]).value


-----------------------------------------------------------------------------
(* Claims about the largest piece, the projection and the inputs.          *)

\* clip_and_convert_polygon has returned from a call in which every vertex
\* is a pair of floats and the engine built and intersected the polygon.
PolygonClipped ==
    /\ PolygonReturned
    /\ clip_ret.engine = <<"returns">>
    /\ AllFloats(clip_args.coords)
    /\ Len(clip_args.coords) >= 3
    /\ ~RingTooShort(XZ(Dedupe(ProjectVertices(bbox, clip_args.coords, clip_args.elevations))))

\* The polygons the ring of the call has in common with the map square.
ClippedPieces ==
    PolygonIntersection(bbox,
        OpenRing(XZ(Dedupe(ProjectVertices(bbox, clip_args.coords, clip_args.elevations)))))

\* The corners of a piece rounded as the output is.
RoundedPiece(piece) ==
    [k \in DOMAIN piece |-> << RoundTo(piece[k][1], CM), RoundTo(piece[k][2], CM) >>]

\* The returned ring is one of the pieces, and none of them is larger.
IsLargestOf(pieces) ==
    /\ ~clip_ret.value.is_none
    /\ \E i \in DOMAIN pieces :
          /\ \A j \in DOMAIN pieces : Area(pieces[i]) >= Area(pieces[j])
          /\ PlanarOf(clip_ret.value.points) = RoundedPiece(pieces[i])

\* C21: when the clip of a polygon yields several disjoint pieces,
\* clip_and_convert_polygon returns the exterior ring of the piece with
\* the largest area and nothing of the other pieces; an area waterway
\* makes at most one record.
C21_LargestPieceOnly ==
    /\ PolygonClipped /\ Len(ClippedPieces) >= 2 => IsLargestOf(ClippedPieces)
    /\ ConverterReturned =>
          \A i \in DOMAIN osm_features : IsArea(i) => Len(RecordsOf(i)) <= 1

\* The ring with two wings in the map has come back as its northern wing,
\* the larger one, which is the second piece of the two; the southern
\* wing's vertex is not in it.
C21_Witness ==
    /\ PolygonClipped
    /\ clip_args.coords = <<P3, P2, P4, P8>>
    /\ Len(ClippedPieces) = 2
    /\ Area(ClippedPieces[2]) > Area(ClippedPieces[1])
    /\ PlanarOf(clip_ret.value.points) = RoundedPiece(ClippedPieces[2])
    /\ \E k \in DOMAIN clip_ret.value.points :
          PlanarOf(clip_ret.value.points)[k] = RoundedPlanar(P3)
    /\ \A k \in DOMAIN clip_ret.value.points :
          PlanarOf(clip_ret.value.points)[k] # RoundedPlanar(P4)


-----------------------------------------------------------------------------
(* Specification SpecProj: a transformer built with one of four boxes, on  *)
(* which _xz and in_bounds are applied to one point after the other.       *)

MaxProjections == 2

\* The specification's example box, a box about latitude 42.617 where a
\* millidegree of longitude is 81.920 m, so that 0.350 degrees east of the
\* centre is exactly on the map's east edge, a box about latitude 60 and a
\* box about latitude 0 and longitude 0.
EdgeBbox == <<42567, 2000, 42667, 2200>>
ProjBboxes == {SmallBbox, EdgeBbox, <<59950, 10000, 60050, 10200>>, <<-50, -100, 50, 100>>}

\* Distances from the centre in millidegrees: none, one step, the last
\* step that is not beyond the map edge and the first that is, either way.
Steps(per_step) ==
    {0, 1, -1, CS2_HALF_MAP \div per_step, -(CS2_HALF_MAP \div per_step),
     (CS2_HALF_MAP \div per_step) + 1, -((CS2_HALF_MAP \div per_step) + 1)}

ProjLats(bb) == { lat_centre(bb) + d : d \in Steps(m_per_lat) }
ProjLons(bb) == { lon_centre(bb) + d : d \in Steps(m_per_lon(bb)) }

ProjInit ==
    /\ bbox \in ProjBboxes
    /\ elevations = {}
    /\ fare_overrides = <<>>
    /\ transit_data = NoTransit
    /\ cs2_transit = NoTransit
    /\ transit_done = FALSE
    /\ ProjIdle

\* One call of _xz and one of in_bounds on the same point.
Project ==
    /\ Len(proj_in) < MaxProjections
    /\ \E lat \in ProjLats(bbox) : \E lon \in ProjLons(bbox) :
          /\ proj_in' = Append(proj_in, <<lat, lon>>)
          /\ proj_out' = Append(proj_out, [xz |-> _xz(bbox, lat, lon),
                                           in_bounds |-> in_bounds(bbox, lat, lon)])
    /\ UNCHANGED <<chunk_vars, cell_vars, transit_vars, main_vars, geom_vars, worker_vars,
                   retry_vars, speed_vars, parse_vars>>

InitProj ==
    ProjInit /\ ChunkIdle /\ CellIdle /\ MainIdle /\ GeomIdle /\ WorkersIdle /\ RetryIdle
             /\ SpeedIdle /\ ParseIdle

NextProj == Project

SpecProj == InitProj /\ [][NextProj]_vars

\* C22: the centre of the bounding box projects to (0, 0); of two points
\* the one with the larger longitude has the strictly larger x and the one
\* with the larger latitude the strictly smaller z; in_bounds holds exactly
\* when |x| <= 28672 m and |z| <= 28672 m, the edges included.
C22_ProjectionAnchoredAndOriented ==
    /\ \A i \in DOMAIN proj_in :
          /\ proj_in[i] = <<lat_centre(bbox), lon_centre(bbox)>> => proj_out[i].xz = <<0, 0>>
          /\ proj_out[i].in_bounds <=>
                /\ proj_out[i].xz[1] >= -CS2_HALF_MAP /\ proj_out[i].xz[1] <= CS2_HALF_MAP
                /\ proj_out[i].xz[2] >= -CS2_HALF_MAP /\ proj_out[i].xz[2] <= CS2_HALF_MAP
    /\ \A i, j \in DOMAIN proj_in :
          /\ proj_in[i][2] < proj_in[j][2] => proj_out[i].xz[1] < proj_out[j].xz[1]
          /\ proj_in[i][1] < proj_in[j][1] => proj_out[i].xz[2] > proj_out[j].xz[2]

\* The centre and a point north-east of it exactly on the east edge have
\* been projected: the second is in bounds, east (x = 28672 m) and north
\* (z < 0) of the first.
C22_Witness ==
    /\ bbox = EdgeBbox
    /\ proj_in = << <<42617, 2100>>, <<42618, 2450>> >>
    /\ proj_out[1].xz = <<0, 0>>
    /\ proj_out[2].xz = <<CS2_HALF_MAP, -m_per_lat>>
    /\ proj_out[2].in_bounds


-----------------------------------------------------------------------------
(* Specification SpecFrame: the converters and the chunker side by side.   *)
(* A run starts with a feature list for convert_roads, convert_railways or *)
(* convert_waterways, with parsed transit data for convert_transit, or     *)
(* with a converted dataset for create_chunks; what the converters return  *)
(* is stored in main's cs2_data and handed to create_chunks.               *)

\* cs2_data as main fills it from what the converters have returned.
Collected ==
    [ roads     |-> IF conv_ret.call = "convert_roads" /\ ~conv_ret.raised
                    THEN conv_ret.value ELSE <<>>,
      railways  |-> IF conv_ret.call = "convert_railways" /\ ~conv_ret.raised
                    THEN conv_ret.value ELSE <<>>,
      waterways |-> IF conv_ret.call = "convert_waterways" /\ ~conv_ret.raised
                    THEN conv_ret.value ELSE <<>>,
      stops     |-> cs2_transit.stops,
      routes    |-> cs2_transit.routes ]

\* main: cs2_data["roads"] = converter.convert_roads(parsed["roads"]) and
\* the like, before create_chunks(cs2_data) is called.
StoreConverted ==
    /\ runs = 0
    /\ data = EmptyData
    /\ Collected # EmptyData
    /\ data' = Collected
    /\ UNCHANGED <<chunk_size_m, chunks, prev_chunks, runs, cell_vars, geom_vars,
                   other_vars, transit_vars, main_vars>>

InitFrame == InitClip \/ InitTransit \/ Init

NextFrame ==
    \/ ConvertRoads
    \/ ConvertRailways
    \/ ConvertWaterways
    \/ ConvertTransit
    \/ StoreConverted
    \/ CreateChunks
    \/ CreateChunksAgain

SpecFrame == InitFrame /\ [][NextFrame]_vars

ChunkFields == {"roads", "railways", "waterways", "stops", "routes"}

\* Every record a chunk holds is a record of the dataset, field by field
\* the same.
PlacedAsTheyAre ==
    \A c \in DOMAIN chunks : \A f \in ChunkFields : \A k \in DOMAIN chunks[c][f] :
        \E n \in DOMAIN data[f] : data[f][n] = chunks[c][f][k]

-----------------------------------------------------------------------------
(* Specification SpecWorkers: the body of create_chunks' road loop (the    *)
(* call of _cell, the call of _get_chunk and the append to the chunk's     *)
(* roads) run by one worker, as in the code, or by several workers that    *)
(* share the dict `chunks` with no lock.  A worker can be preempted        *)
(* between any two of: the test `(col, row) not in chunks`, the store of   *)
(* the new chunk, the read `chunks[(col, row)]` and the append.            *)

MaxWorkers == 2
MaxTasks == 2

\* Roads by their first point: in cell (5, 5) and in cell (0, 0) of the
\* 5 km grid.
WorkerPointLists == {<<PCentre, PNorthWest>>, <<PNorthWest, PSouthEast>>}

\* The roads of worker w: one or up to MaxTasks of them, with ids of its own.
WorkerRoads(w) ==
    { [k \in DOMAIN pls |-> [id |-> PrefixedId("road", 10 * w + k), points |-> pls[k]]] :
        pls \in Lists(WorkerPointLists, MaxTasks) \ {<<>>} }

WorkersInit ==
    /\ \E n \in 1..MaxWorkers :
          workers \in { ws \in [1..n -> [pc : {"test"}, todo : UNION {WorkerRoads(w) : w \in 1..n},
                                         done : {<<>>}, key : {None}, chunk : {0}]] :
                          \A w \in 1..n : ws[w].todo \in WorkerRoads(w) }
    /\ w_chunks = <<>>
    /\ w_heap = <<>>

\* (col, row) not in chunks
CellMissingAlways(table, key) == TRUE

CellMissing(table, key) == ~\E i \in DOMAIN table : table[i].key = key

\* chunks[(col, row)] = value: a key the dict has keeps its place.
DictStore(table, key, ref) ==
    IF \E i \in DOMAIN table : table[i].key = key
    THEN [i \in DOMAIN table |-> IF table[i].key = key THEN [key |-> key, ref |-> ref]
                                 ELSE table[i]]
    ELSE Append(table, [key |-> key, ref |-> ref])

\* chunks[(col, row)]
DictLookup(table, key) == (CHOOSE e \in {table[i] : i \in DOMAIN table} : e.key = key).ref

\* The loop takes the next road, computes its cell and tests the dict.
WorkerTest(w) ==
    /\ workers[w].pc = "test"
    /\ workers[w].todo # <<>>
    /\ LET pt  == Head(workers[w].todo).points[1]
           key == _cell(pt.x, pt.z, chunk_size_m)
       IN  workers' = [workers EXCEPT ![w].key = key,
                                      ![w].pc = IF CellMissing(w_chunks, key)
                                                THEN "create" ELSE "read"]
    /\ UNCHANGED <<w_chunks, w_heap>>

\* The new chunk is built and stored under the key.
WorkerCreate(w) ==
    /\ workers[w].pc = "create"
    /\ w_heap' = Append(w_heap, NewChunk(workers[w].key[1], workers[w].key[2], chunk_size_m))
    /\ w_chunks' = DictStore(w_chunks, workers[w].key, Len(w_heap) + 1)
    /\ workers' = [workers EXCEPT ![w].pc = "read"]

\* return chunks[(col, row)]
WorkerRead(w) ==
    /\ workers[w].pc = "read"
    /\ workers' = [workers EXCEPT ![w].chunk = DictLookup(w_chunks, workers[w].key),
                                  ![w].pc = "append"]
    /\ UNCHANGED <<w_chunks, w_heap>>

\* chunk["roads"].append(road)
WorkerAppend(w) ==
    /\ workers[w].pc = "append"
    /\ w_heap' = [w_heap EXCEPT ![workers[w].chunk].roads = Append(@, Head(workers[w].todo))]
    /\ workers' = [workers EXCEPT ![w].todo = Tail(@),
                                  ![w].done = Append(@, Head(workers[w].todo)),
                                  ![w].pc = "test"]
    /\ UNCHANGED w_chunks

WorkerStep ==
    /\ \E w \in DOMAIN workers :
          WorkerTest(w) \/ WorkerCreate(w) \/ WorkerRead(w) \/ WorkerAppend(w)
    /\ UNCHANGED <<chunk_vars, cell_vars, transit_vars, main_vars, geom_vars, proj_vars,
                   retry_vars, speed_vars, parse_vars>>

InitWorkers ==
    /\ WorkersInit
    /\ ChunkIdle /\ CellIdle /\ TransitIdle /\ MainIdle /\ GeomIdle /\ ProjIdle /\ RetryIdle
    /\ SpeedIdle /\ ParseIdle

NextWorkers == WorkerStep

SpecWorkers == InitWorkers /\ [][NextWorkers]_vars

\* list(chunks.values()): the chunks the dict holds now.
WorkerResult == [i \in DOMAIN w_chunks |-> w_heap[w_chunks[i].ref]]

\* A road some worker has appended that no chunk of the dict holds.
LostRoads ==
    { r \in UNION { {workers[w].done[k] : k \in DOMAIN workers[w].done} : w \in DOMAIN workers } :
        ~\E i \in DOMAIN WorkerResult : \E k \in DOMAIN WorkerResult[i].roads :
            WorkerResult[i].roads[k] = r }

\* How many chunk dicts have been created for the cell of `key`.
Creations(key) == Cardinality({ref \in DOMAIN w_heap : w_heap[ref].key = key})

\* C24: run by a single worker, the lazy creation of cells loses no
\* feature; with several workers a feature is lost only where the cell has
\* been created more than once, the later chunk replacing the one the
\* feature was appended to.
C24_LostOnlyByDoubleCreation ==
    /\ Len(workers) = 1 => LostRoads = {}
    /\ \A r \in LostRoads :
          Creations(_cell(r.points[1].x, r.points[1].z, chunk_size_m)) >= 2

\* Two workers have each taken one road of cell (5, 5), both have created
\* the cell, both are through, and the road of one of them is lost.
C24_Witness ==
    /\ Len(workers) = 2
    /\ \A w \in DOMAIN workers : workers[w].todo = <<>> /\ Len(workers[w].done) = 1
    /\ Creations(<<5, 5>>) = 2
    /\ Len(w_chunks) = 1
    /\ Cardinality(LostRoads) = 1


-----------------------------------------------------------------------------
(* Specification SpecRetry: one call of OSMFetcher._query_with_retry.      *)
(* What self.api.query does on each attempt is the server's and the        *)
(* network's choice: it returns a result or raises an exception.           *)

MaxRetriesArg == 4

\* The values of the max_retries argument: one to MaxRetriesArg attempts.
\* Every caller in the class leaves the default, 3.
RetryLimits == 1..MaxRetriesArg

\* The exception classes of the RETRIABLE tuple.
RETRIABLE ==
    {"OverpassGatewayTimeout", "OverpassTooManyRequests", "ConnectionError",
     "ChunkedEncodingError", "Timeout", "ReadTimeout"}

IsRetriable(e) == e \in RETRIABLE

\* The same pause before every retry.
BackoffFlat(k) == 10

\* wait = (2 ** attempt) * 10
Backoff(k) == (2 ^ k) * 10

\* What a call of self.api.query(query) can do.
ApiOutcomes == {"result"} \cup RETRIABLE \cup {"OverpassBadRequest", "OverpassUnknownError"}

RetryInit ==
    /\ max_retries \in RetryLimits
    /\ attempt = 0
    /\ retry_pc = "loop"
    /\ api_calls = <<>>
    /\ waits = <<>>

\* One turn of `for attempt in range(max_retries)`: the query is made; it
\* returns, or it raises and the handlers run.
QueryAttempt ==
    /\ retry_pc = "loop"
    /\ attempt < max_retries
    /\ \E outcome \in ApiOutcomes :
          /\ api_calls' = Append(api_calls, outcome)
          /\ IF outcome = "result"
             THEN retry_pc' = "returned" /\ UNCHANGED <<attempt, waits>>
             ELSE IF IsRetriable(outcome)
             THEN IF attempt < max_retries - 1
                  THEN /\ waits' = Append(waits, Backoff(attempt))
                       /\ attempt' = attempt + 1
                       /\ UNCHANGED retry_pc
                  ELSE retry_pc' = "raised" /\ UNCHANGED <<attempt, waits>>
             ELSE retry_pc' = "raised" /\ UNCHANGED <<attempt, waits>>
    /\ UNCHANGED <<max_retries, chunk_vars, cell_vars, transit_vars, main_vars, geom_vars,
                   proj_vars, worker_vars, speed_vars, parse_vars>>

InitRetry ==
    /\ RetryInit
    /\ ChunkIdle /\ CellIdle /\ TransitIdle /\ MainIdle /\ GeomIdle /\ ProjIdle /\ WorkersIdle
    /\ SpeedIdle /\ ParseIdle

NextRetry == QueryAttempt

SpecRetry == InitRetry /\ [][NextRetry]_vars

\* The call has returned the result of a query.
ReturnedResult ==
    retry_pc = "returned" /\ api_calls # <<>> /\ api_calls[Len(api_calls)] = "result"

\* C25: _query_with_retry makes at most max_retries attempts; the k-th
\* retriable failure (k from 0) that is not on the last attempt is followed
\* by a wait of 2^k * 10 seconds and another attempt; a result ends the
\* call at once; a non-retriable error is raised after its attempt with no
\* wait; a retriable failure on the last attempt is raised; the loop never
\* runs out, so the call never returns without a result.
C25_RetryWithBackoff ==
    /\ Len(api_calls) <= max_retries
    /\ \A k \in DOMAIN waits : waits[k] = (2 ^ (k - 1)) * 10
    /\ \A k \in DOMAIN api_calls :
          k < Len(api_calls) => api_calls[k] \in RETRIABLE /\ k \in DOMAIN waits
    /\ retry_pc = "loop" => Len(waits) = Len(api_calls) /\ attempt < max_retries
    /\ retry_pc = "raised" =>
          /\ api_calls # <<>> /\ api_calls[Len(api_calls)] # "result"
          /\ Len(waits) = Len(api_calls) - 1
          /\ api_calls[Len(api_calls)] \in RETRIABLE => Len(api_calls) = max_retries
    /\ retry_pc = "returned" => ReturnedResult /\ Len(waits) = Len(api_calls) - 1

\* A call allowed four attempts has failed three times, waited 10, 20 and
\* 40 seconds, and has returned the result of the fourth attempt.
C25_Witness ==
    /\ max_retries = 4
    /\ api_calls = <<"Timeout", "OverpassTooManyRequests", "ConnectionError", "result">>
    /\ waits = <<10, 20, 40>>
    /\ retry_pc = "returned"

\* A call with the default of three attempts has failed three times: two
\* waits, and the third failure raised.
RetryGivesUp ==
    /\ max_retries = 3
    /\ Len(api_calls) = 3
    /\ waits = <<10, 20>>
    /\ retry_pc = "raised"

-----------------------------------------------------------------------------
(* Specification SpecSpeed: CS2Converter._parse_speed as a pure function   *)
(* of the maxspeed tag value.                                              *)

MaxSpeed == 40

\* The maxspeed values: a bare number, a number and a unit with a blank
\* between them, the same written together, a word, the empty string.
SpeedUnits == {"mph", "km/h"}

SpeedTags ==
    {NoSpeed, Word}
    \cup { Plain(n) : n \in 0..MaxSpeed }
    \cup { Spaced(n, unit) : n \in 0..MaxSpeed, unit \in SpeedUnits }
    \cup { Glued(n, unit) : n \in 0..MaxSpeed, unit \in SpeedUnits }

SpeedInit ==
    /\ speed_in \in SpeedTags
    /\ speed_out = None

ParseSpeed ==
    /\ speed_out = None
    /\ speed_out' = <<_parse_speed(speed_in)>>
    /\ UNCHANGED <<speed_in, chunk_vars, cell_vars, transit_vars, main_vars, geom_vars,
                   proj_vars, worker_vars, retry_vars, parse_vars>>

InitSpeed ==
    /\ SpeedInit
    /\ ChunkIdle /\ CellIdle /\ TransitIdle /\ MainIdle /\ GeomIdle /\ ProjIdle /\ WorkersIdle
    /\ RetryIdle /\ ParseIdle

NextSpeed == ParseSpeed

SpecSpeed == InitSpeed /\ [][NextSpeed]_vars

\* int(number * 1.60934)
MphAsKmh(n) == (n * 160934) \div 100000

\* What the value parsed is said to be, for a tag value that spells a
\* number of miles per hour with the blank (spaced) or without it (glued).
SpeedOfMph(tag, speed) ==
    tag.unit = "mph" /\ tag.kind \in {"spaced", "glued"} => speed = MphAsKmh(tag.n)

\* C26: for every maxspeed value that carries an integer and the unit mph,
\* with or without a blank between them, _parse_speed returns
\* int(number * 1.60934); a value with no unit returns the number itself;
\* an empty or unparseable value returns 50.
C26_MphConvertedToKmh ==
    speed_out # None =>
        /\ SpeedOfMph(speed_in, speed_out[1])
        /\ speed_in.kind = "plain" => speed_out[1] = speed_in.n
        /\ speed_in.kind \in {"empty", "word"} => speed_out[1] = 50

\* The same without the values that carry the unit with no blank before it.
MphConvertedWhenSpaced ==
    speed_out # None /\ speed_in.kind # "glued" =>
        /\ SpeedOfMph(speed_in, speed_out[1])
        /\ speed_in.kind = "plain" => speed_out[1] = speed_in.n
        /\ speed_in.kind \in {"empty", "word"} => speed_out[1] = 50

\* "30mph" has been parsed: the default 50 came back, not 48.
GluedMphGivesDefault ==
    speed_in = Glued(30, "mph") /\ speed_out = <<50>> /\ MphAsKmh(30) = 48


-----------------------------------------------------------------------------
(* External stops beyond the map and the bearing of their stand-in.        *)

\* a * b for 0 <= a, b < 10^8, as <<high, low>> in base 10^8.
Prod(a, b) ==
    Carried((a \div 10000) * (b \div 10000)
              + ((a \div 10000) * (b % 10000) + (a % 10000) * (b \div 10000)) \div 10000,
            (((a \div 10000) * (b % 10000) + (a % 10000) * (b \div 10000)) % 10000) * 10000
              + (a % 10000) * (b % 10000))

\* |a * b - c * d| <= e, in exact arithmetic.
CrossWithin(a, b, c, d, e) ==
    IF Sign(a) * Sign(b) * Sign(c) * Sign(d) < 0
    THEN ~SqLess(Carried(0, e), SqAdd(Prod(Abs(a), Abs(b)), Prod(Abs(c), Abs(d))))
    ELSE /\ ~SqLess(SqAdd(Prod(Abs(c), Abs(d)), Carried(0, e)), Prod(Abs(a), Abs(b)))
         /\ ~SqLess(SqAdd(Prod(Abs(a), Abs(b)), Carried(0, e)), Prod(Abs(c), Abs(d)))

\* pos lies on the boundary of the map square.
OnMapBoundary(pos) ==
    /\ Abs(pos.x) <= CS2_HALF_MAP
    /\ Abs(pos.z) <= CS2_HALF_MAP
    /\ Abs(pos.x) = CS2_HALF_MAP \/ Abs(pos.z) = CS2_HALF_MAP

\* pos lies, to the centimetre it is rounded to, on the ray from the map
\* centre through xz: on its line and on the same side of the centre.
OnRayThrough(pos, xz) ==
    /\ CrossWithin(pos.x, xz[2], pos.z, xz[1], 10 * Max2(Abs(xz[1]), Abs(xz[2])))
    /\ Sign(pos.x) * Sign(xz[1]) >= 0
    /\ Sign(pos.z) * Sign(xz[2]) >= 0

BeyondMap(xz) == Abs(xz[1]) > CS2_HALF_MAP \/ Abs(xz[2]) > CS2_HALF_MAP

\* The stops of the input flagged external whose projection is beyond the map.
ExternalBeyond ==
    { k \in DOMAIN transit_data.stops :
        /\ transit_data.stops[k].coordinates # Malformed
        /\ transit_data.stops[k].is_external
        /\ BeyondMap(_xz(bbox, transit_data.stops[k].coordinates[2],
                         transit_data.stops[k].coordinates[1])) }

\* C27: for an external stop whose projection lies beyond the map boundary,
\* the emitted position lies on the boundary of the map square and on the
\* ray from the map centre through the stop's true projected position.
C27_ClampKeepsBearing ==
    transit_done =>
        \A k \in ExternalBeyond :
            \A i \in OutputsOf(transit_data.stops[k]) :
                /\ OnMapBoundary(cs2_transit.stops[i].position)
                /\ OnRayThrough(cs2_transit.stops[i].position,
                                _xz(bbox, transit_data.stops[k].coordinates[2],
                                    transit_data.stops[k].coordinates[1]))

\* The part that holds: the stand-in is on the boundary.
ClampReachesBoundary ==
    transit_done =>
        \A k \in ExternalBeyond :
            \A i \in OutputsOf(transit_data.stops[k]) :
                OnMapBoundary(cs2_transit.stops[i].position)

\* A stop to the north-east, beyond two edges, has been put in the corner,
\* which is not where the ray to it leaves the map.
CornerOffTheRay ==
    /\ transit_done
    /\ \E k \in ExternalBeyond : \E i \in OutputsOf(transit_data.stops[k]) :
          /\ cs2_transit.stops[i].position.x = CS2_HALF_MAP
          /\ cs2_transit.stops[i].position.z = -CS2_HALF_MAP
          /\ ~OnRayThrough(cs2_transit.stops[i].position,
                           _xz(bbox, transit_data.stops[k].coordinates[2],
                               transit_data.stops[k].coordinates[1]))

\* A stop due east has been put on the east edge, on its ray.
EastOnTheRay ==
    /\ transit_done
    /\ \E k \in ExternalBeyond : \E i \in OutputsOf(transit_data.stops[k]) :
          /\ cs2_transit.stops[i].position.z = 0
          /\ OnRayThrough(cs2_transit.stops[i].position,
                          _xz(bbox, transit_data.stops[k].coordinates[2],
                              transit_data.stops[k].coordinates[1]))


-----------------------------------------------------------------------------
(* Specification SpecParse: OSMParser.parse_transit_routes on an Overpass  *)
(* result. A node is [id, latlon, stop_keys, stop_type, is_underground]:   *)
(* stop_keys says whether a key of STOP_KEYS is among its tags, stop_type  *)
(* and is_underground are what _determine_stop_type and                    *)
(* _node_is_underground make of the tags. A relation is [id, type, route,  *)
(* members], type and route being the tags of these names.                 *)

MaxParseNodes     == 2
MaxParseRelations == 2

_STOP_ROLES ==
    {"stop", "stop_entry_only", "stop_exit_only", "forward:stop", "backward:stop",
     "platform", ""}

\* The nodes of a result: a tram stop, an underground tram stop, a node
\* with no tags outside the box (out body skel), a tagged node that is no
\* stop, a bus stop whose latitude does not parse.
ResultNodes ==
    { [latlon |-> <<48050, 2051>>, stop_keys |-> TRUE, stop_type |-> "tram",
       is_underground |-> FALSE],
      [latlon |-> <<48050, 2051>>, stop_keys |-> TRUE, stop_type |-> "tram",
       is_underground |-> TRUE],
      [latlon |-> <<48050, 2500>>, stop_keys |-> FALSE, stop_type |-> "unknown",
       is_underground |-> FALSE],
      [latlon |-> <<48051, 2251>>, stop_keys |-> TRUE, stop_type |-> "unknown",
       is_underground |-> FALSE],
      [latlon |-> Malformed, stop_keys |-> TRUE, stop_type |-> "bus",
       is_underground |-> FALSE] }

NodeInputs(ns) ==
    [i \in DOMAIN ns |->
        [id |-> i, latlon |-> ns[i].latlon, stop_keys |-> ns[i].stop_keys,
         stop_type |-> ns[i].stop_type, is_underground |-> ns[i].is_underground]]

Member(type, ref, role) == [type |-> type, ref |-> ref, role |-> role]

\* Member lists; node 9 is in no result, way 7 may be a tunnel.
MemberLists ==
    { <<Member("node", 1, "stop"), Member("node", 2, "platform"), Member("way", 8, "")>>,
      <<Member("node", 2, ""), Member("way", 7, ""), Member("node", 9, "stop")>>,
      <<Member("node", 1, "guide"), Member("way", 8, "")>>,
      <<Member("node", 2, "stop"), Member("node", 1, "stop"), Member("node", 2, "stop")>> }

ResultRelations ==
    { [type |-> "route", route |-> t, members |-> ms] :
        t \in {"tram", "bus"}, ms \in MemberLists }
    \cup { [type |-> "multipolygon", route |-> "",
            members |-> <<Member("node", 1, "stop")>>] }

RelationInputs(rs) ==
    [i \in DOMAIN rs |->
        [id |-> i, type |-> rs[i].type, route |-> rs[i].route, members |-> rs[i].members]]

\* The keys of all_node_latlons: the nodes whose lat and lon are numbers.
all_node_latlons(nodes) ==
    {nodes[i].id : i \in {j \in DOMAIN nodes : nodes[j].latlon # Malformed}}

NodeOf(nodes, id) == nodes[CHOOSE i \in DOMAIN nodes : nodes[i].id = id]

\* raw_stops after the node loop: the tagged stop nodes, in result order.
RECURSIVE TaggedStops(_, _)
TaggedStops(nodes, bb) ==
    IF nodes = <<>> THEN <<>>
    ELSE IF /\ Head(nodes).stop_keys
            /\ Head(nodes).stop_type # "unknown"
            /\ Head(nodes).latlon # Malformed
         THEN << [ id             |-> Head(nodes).id,
                   type           |-> Head(nodes).stop_type,
                   is_underground |-> Head(nodes).is_underground,
                   is_external    |-> _node_is_external(Head(nodes).latlon[1],
                                                        Head(nodes).latlon[2], bb) ] >>
              \o TaggedStops(Tail(nodes), bb)
         ELSE TaggedStops(Tail(nodes), bb)

\* route_stop_ids: the refs of the stop members that have coordinates.
RECURSIVE route_stop_ids(_, _)
route_stop_ids(members, located) ==
    IF members = <<>> THEN <<>>
    ELSE IF /\ Head(members).type = "node"
            /\ Head(members).role \in _STOP_ROLES
            /\ Head(members).ref \in located
         THEN <<Head(members).ref>> \o route_stop_ids(Tail(members), located)
         ELSE route_stop_ids(Tail(members), located)

RECURSIVE route_way_ids(_)
route_way_ids(members) ==
    IF members = <<>> THEN <<>>
    ELSE IF Head(members).type = "way"
         THEN <<Head(members).ref>> \o route_way_ids(Tail(members))
         ELSE route_way_ids(Tail(members))

Elements(seq) == {seq[i] : i \in DOMAIN seq}

StopIdsOf(stops) == {stops[i].id : i \in DOMAIN stops}

\* has_tunnel_way or has_ug_stop of a tram relation
UndergroundTram(rel, located, raw_stops, underground_way_ids) ==
    /\ rel.route = "tram"
    /\ \/ Elements(route_way_ids(rel.members)) \cap underground_way_ids # {}
       \/ \E i \in DOMAIN raw_stops :
             /\ raw_stops[i].id \in Elements(route_stop_ids(rel.members, located))
             /\ raw_stops[i].is_underground

\* The same with no tram filter.
AcceptedWithTunnels(rel, located, raw_stops, underground_way_ids) ==
    /\ rel.type = "route"
    /\ route_stop_ids(rel.members, located) # <<>>

\* Whether the relation loop reaches routes.append for the relation.
Accepted(rel, located, raw_stops, underground_way_ids) ==
    /\ rel.type = "route"
    /\ route_stop_ids(rel.members, located) # <<>>
    /\ ~UndergroundTram(rel, located, raw_stops, underground_way_ids)

\* has_external
HasExternal(stop_ids, raw_stops) ==
    \E j \in DOMAIN stop_ids :
       \/ stop_ids[j] \notin StopIdsOf(raw_stops)
       \/ \E i \in DOMAIN raw_stops :
             raw_stops[i].id = stop_ids[j] /\ raw_stops[i].is_external

RECURSIVE ParsedRouteList(_, _, _, _)
ParsedRouteList(relations, located, raw_stops, underground_way_ids) ==
    IF relations = <<>> THEN <<>>
    ELSE IF Accepted(Head(relations), located, raw_stops, underground_way_ids)
         THEN << [ id           |-> Head(relations).id,
                   route_type   |-> Head(relations).route,
                   is_intercity |-> HasExternal(route_stop_ids(Head(relations).members,
                                                               located), raw_stops),
                   stop_ids     |-> route_stop_ids(Head(relations).members, located),
                   way_ids      |-> route_way_ids(Head(relations).members) ] >>
              \o ParsedRouteList(Tail(relations), located, raw_stops, underground_way_ids)
         ELSE ParsedRouteList(Tail(relations), located, raw_stops, underground_way_ids)

\* used_stop_type after one more route: a stop id not yet a key is added
\* with the route's type; entries are <<sid, route_type>> in insertion order.
RECURSIVE UsedAfter(_, _, _)
UsedAfter(used, stop_ids, route_type) ==
    IF stop_ids = <<>> THEN used
    ELSE IF \E i \in DOMAIN used : used[i][1] = Head(stop_ids)
         THEN UsedAfter(used, Tail(stop_ids), route_type)
         ELSE UsedAfter(Append(used, <<Head(stop_ids), route_type>>), Tail(stop_ids),
                        route_type)

RECURSIVE used_stop_type(_, _)
used_stop_type(used, routes) ==
    IF routes = <<>> THEN used
    ELSE used_stop_type(UsedAfter(used, Head(routes).stop_ids, Head(routes).route_type),
                        Tail(routes))

\* raw_stops after the loop that adds an entry for every used stop that has
\* none and has coordinates.
RECURSIVE Synthesised(_, _, _, _)
Synthesised(raw_stops, used, nodes, bb) ==
    IF used = <<>> THEN raw_stops
    ELSE IF \/ Head(used)[1] \in StopIdsOf(raw_stops)
            \/ Head(used)[1] \notin all_node_latlons(nodes)
         THEN Synthesised(raw_stops, Tail(used), nodes, bb)
         ELSE Synthesised(
                Append(raw_stops,
                       [ id             |-> Head(used)[1],
                         type           |-> Head(used)[2],
                         is_underground |-> FALSE,
                         is_external    |->
                             _node_is_external(NodeOf(nodes, Head(used)[1]).latlon[1],
                                               NodeOf(nodes, Head(used)[1]).latlon[2], bb) ]),
                Tail(used), nodes, bb)

\* stops: the entries of raw_stops whose id is in used_ids.
RECURSIVE EmittedStops(_, _)
EmittedStops(raw_stops, used_ids) ==
    IF raw_stops = <<>> THEN <<>>
    ELSE IF Head(raw_stops).id \in used_ids
         THEN <<Head(raw_stops)>> \o EmittedStops(Tail(raw_stops), used_ids)
         ELSE EmittedStops(Tail(raw_stops), used_ids)

ParseResult(nodes, routes, bb) ==
    [ stops  |-> EmittedStops(
                    Synthesised(TaggedStops(nodes, bb), used_stop_type(<<>>, routes), nodes, bb),
                    {u[1] : u \in Elements(used_stop_type(<<>>, routes))}),
      routes |-> routes ]

parse_transit_routes(result, underground_way_ids, bb) ==
    ParseResult(result.nodes,
                ParsedRouteList(result.relations, all_node_latlons(result.nodes),
                                TaggedStops(result.nodes, bb), underground_way_ids),
                bb)

ParseInit ==
    /\ \E ns \in Lists(ResultNodes, MaxParseNodes) :
       \E rs \in Lists(ResultRelations, MaxParseRelations) :
       \E ug \in {{}, {7}} :
          osm_result = [nodes |-> NodeInputs(ns), relations |-> RelationInputs(rs),
                        underground_way_ids |-> ug]
    /\ parsed_transit = None

ParseTransitRoutes ==
    /\ parsed_transit = None
    /\ parsed_transit' =
          <<parse_transit_routes(osm_result, osm_result.underground_way_ids, SmallBbox)>>
    /\ UNCHANGED <<osm_result, chunk_vars, cell_vars, transit_vars, main_vars, geom_vars,
                   proj_vars, worker_vars, retry_vars, speed_vars>>

InitParse ==
    /\ ParseInit
    /\ ChunkIdle /\ CellIdle /\ TransitIdle /\ MainIdle /\ GeomIdle /\ ProjIdle /\ WorkersIdle
    /\ RetryIdle /\ SpeedIdle

NextParse == ParseTransitRoutes

SpecParse == InitParse /\ [][NextParse]_vars


\* The tram routes of the result that run underground: a member way is a
\* known tunnel, or a stop member with coordinates is a tagged stop node
\* marked underground.
UndergroundTramRelations ==
    { i \in DOMAIN osm_result.relations :
        LET rel == osm_result.relations[i]
        IN  /\ rel.type = "route"
            /\ rel.route = "tram"
            /\ \E m \in DOMAIN rel.members :
                  \/ /\ rel.members[m].type = "way"
                     /\ rel.members[m].ref \in osm_result.underground_way_ids
                  \/ /\ rel.members[m].type = "node"
                     /\ rel.members[m].role \in _STOP_ROLES
                     /\ \E n \in DOMAIN osm_result.nodes :
                           /\ osm_result.nodes[n].id = rel.members[m].ref
                           /\ osm_result.nodes[n].latlon # Malformed
                           /\ osm_result.nodes[n].stop_keys
                           /\ osm_result.nodes[n].stop_type # "unknown"
                           /\ osm_result.nodes[n].is_underground }

ReferencedStopIds(routes) ==
    UNION {Elements(routes[i].stop_ids) : i \in DOMAIN routes}

\* C28: in the output of parse_transit_routes every stop id in an emitted
\* route's stop_ids is the id of an emitted stop, every emitted stop is
\* referenced by at least one emitted route, and a tram route dropped as
\* underground is not among the routes (so that it brings in no stop).
C28_StopsAndRoutesClosed ==
    parsed_transit # None =>
        /\ ReferencedStopIds(parsed_transit[1].routes) = StopIdsOf(parsed_transit[1].stops)
        /\ \A i \in DOMAIN parsed_transit[1].routes :
              parsed_transit[1].routes[i].stop_ids # <<>>
        /\ \A i \in UndergroundTramRelations :
              \A j \in DOMAIN parsed_transit[1].routes :
                 parsed_transit[1].routes[j].id # osm_result.relations[i].id

\* A tram route through the tunnel has been dropped and the tram stop only
\* it uses is not emitted, while a bus route is emitted with the stop it
\* has from an untagged node.
C28_Witness ==
    /\ parsed_transit # None
    /\ UndergroundTramRelations # {}
    /\ Len(osm_result.nodes) = 2
    /\ osm_result.nodes[1].stop_type = "tram"
    /\ osm_result.nodes[1].stop_keys
    /\ \E i \in UndergroundTramRelations :
          \E m \in DOMAIN osm_result.relations[i].members :
             osm_result.relations[i].members[m] = Member("node", 1, "stop")
    /\ Len(parsed_transit[1].routes) = 1
    /\ StopIdsOf(parsed_transit[1].stops) = {2}
    /\ parsed_transit[1].stops[1].type = "bus"


-----------------------------------------------------------------------------
(* Emitted stops and the map square.                                       *)

InSquare(pos) == Abs(pos.x) <= CS2_HALF_MAP /\ Abs(pos.z) <= CS2_HALF_MAP

\* The stops of the input, not flagged external, that project out of the map.
InternalBeyond ==
    { k \in DOMAIN transit_data.stops :
        /\ transit_data.stops[k].coordinates # Malformed
        /\ ~transit_data.stops[k].is_external
        /\ BeyondMap(_xz(bbox, transit_data.stops[k].coordinates[2],
                         transit_data.stops[k].coordinates[1])) }

\* C29: every stop emitted by convert_transit has |x| <= 28672 m and
\* |z| <= 28672 m: a stop not flagged external whose projection is out of
\* bounds is dropped and no route refers to it any more, and a stop flagged
\* external is emitted inside the square.
C29_EmittedStopsInSquare ==
    transit_done =>
        /\ \A i \in DOMAIN cs2_transit.stops : InSquare(cs2_transit.stops[i].position)
        /\ \A k \in InternalBeyond :
              /\ OutputsOf(transit_data.stops[k]) = {}
              /\ \A r \in DOMAIN cs2_transit.routes :
                    \A j \in DOMAIN cs2_transit.routes[r].stops :
                       cs2_transit.routes[r].stops[j] #
                          PrefixedId("stop", transit_data.stops[k].id)
        /\ \A k \in ExternalBeyond :
              /\ OutputsOf(transit_data.stops[k]) # {}
              /\ \A i \in OutputsOf(transit_data.stops[k]) :
                    InSquare(cs2_transit.stops[i].position)

\* A stop inside the box but east of the map has been dropped, the route
\* that listed it twice keeps only its other stop, an external stop beyond
\* two map edges, which has been emitted in the corner of the square.
C29_Witness ==
    /\ transit_done
    /\ InternalBeyond = {2}
    /\ ExternalBeyond = {1}
    /\ Len(cs2_transit.stops) = 1
    /\ cs2_transit.stops[1].position.x = CS2_HALF_MAP
    /\ cs2_transit.stops[1].position.z = -CS2_HALF_MAP
    /\ \E r \in DOMAIN transit_data.routes :
          /\ transit_data.routes[r].stop_ids = <<2, 1, 2>>
          /\ cs2_transit.routes[r].stops = <<PrefixedId("stop", 1)>>


-----------------------------------------------------------------------------
(* The bounds recorded on a chunk and the points of what it owns.          *)

InBounds(pt, b) ==
    /\ b.x_min <= pt.x /\ pt.x <= b.x_max
    /\ b.z_min <= pt.z /\ pt.z <= b.z_max

InMapSquare(pt) == Abs(pt.x) <= CS2_HALF_MAP /\ Abs(pt.z) <= CS2_HALF_MAP

\* The representative points of what a chunk owns: the first point of each
\* road, railway and waterway, the position of each stop.
OwnedPoints(chunk) ==
    {chunk.roads[j].points[1] : j \in DOMAIN chunk.roads}
    \cup {chunk.railways[j].points[1] : j \in DOMAIN chunk.railways}
    \cup {chunk.waterways[j].points[1] : j \in DOMAIN chunk.waterways}
    \cup {chunk.stops[j].position : j \in DOMAIN chunk.stops}

\* The bounds of cell (col, row) before rounding.
CellSpan(key, size) ==
    [ x_min |-> -CS2_HALF_MAP + key[1] * size,
      z_min |-> -CS2_HALF_MAP + key[2] * size,
      x_max |-> -CS2_HALF_MAP + (key[1] + 1) * size,
      z_max |-> -CS2_HALF_MAP + (key[2] + 1) * size ]

\* C30: for every positive chunk size, the representative point of every
\* feature that lies inside the map square lies within the closed bounds
\* [x_min, x_max] x [z_min, z_max] recorded on the chunk that owns the
\* feature, on the east and south map edges and for a chunk size that does
\* not divide the map edge too; chunks of the same (col, row) have the same
\* bounds.
C30_PointWithinChunkBounds ==
    runs >= 1 =>
        /\ \A i \in DOMAIN chunks :
              \A pt \in OwnedPoints(chunks[i]) :
                 InMapSquare(pt) => InBounds(pt, chunks[i].bounds)
        /\ \A i, j \in DOMAIN chunks :
              chunks[i].key = chunks[j].key => chunks[i].bounds = chunks[j].bounds

\* The same for chunk sizes that are a whole number of decimetres.
PointWithinBoundsOfDecimetreGrid ==
    (runs >= 1 /\ chunk_size_m % DM = 0) =>
        \A i \in DOMAIN chunks :
           \A pt \in OwnedPoints(chunks[i]) :
              InMapSquare(pt) => InBounds(pt, chunks[i].bounds)

\* The point is in the cell it was given, whatever the chunk size.
PointWithinCellSpan ==
    runs >= 1 =>
        \A i \in DOMAIN chunks :
           \A pt \in OwnedPoints(chunks[i]) :
              InMapSquare(pt) => InBounds(pt, CellSpan(chunks[i].key, chunk_size_m))

\* A railway that starts one centimetre into cell (1, 1) of the 5000.06 m
\* grid is owned by chunk (1, 1), whose recorded x_min and z_min, rounded to
\* the decimetre, are 3 cm past the point.
PointOutsideRoundedBounds ==
    /\ runs >= 1
    /\ chunk_size_m = 5000060
    /\ \E i \in DOMAIN chunks :
          /\ chunks[i].key = <<1, 1>>
          /\ PPastEdge \in OwnedPoints(chunks[i])
          /\ chunks[i].bounds.x_min = -23671900
          /\ ~InBounds(PPastEdge, chunks[i].bounds)

\* A road that starts in the south-east corner of the map is owned by the
\* last chunk of the 5 km grid, within its bounds.
CornerWithinBounds ==
    /\ runs >= 1
    /\ chunk_size_m = 5000000
    /\ \E i \in DOMAIN chunks :
          /\ chunks[i].key = <<11, 11>>
          /\ PSouthEast \in OwnedPoints(chunks[i])
          /\ InBounds(PSouthEast, chunks[i].bounds)

====
